---- MODULE Spec2Model ----
(***************************************************************************)
(* Model of the LLM-output JSON recovery and validation pipeline of the    *)
(* needs generator (generateNeedsFromTrend) and of the solutions generator *)
(* (generateSolutions).  Texts are sequences of one-character strings.     *)
(***************************************************************************)
EXTENDS Integers, Sequences, FiniteSets, TLC

\* ------------------------------------------------------------------------
\* Characters and elementary text operations
\* ------------------------------------------------------------------------
LB == "{"
RB == "}"
LK == "["
RK == "]"
QT == "\""
BS == "\\"
COLON == ":"
COMMA == ","
NL == "\n"
SP == " "
\* U+0060 (grave accent), written as a token: the character cannot appear in a
\* TLA+ string
TICK == "BACKTICK"

UpperCase == <<"A","B","C","D","E","F","G","H","I","J","K","L","M",
               "N","O","P","Q","R","S","T","U","V","W","X","Y","Z">>
LowerCase == <<"a","b","c","d","e","f","g","h","i","j","k","l","m",
               "n","o","p","q","r","s","t","u","v","w","x","y","z">>
Digits == <<"0","1","2","3","4","5","6","7","8","9">>

\* canonical form of a character under the regular expression flag i
UpperCaseChars == {UpperCase[k] : k \in 1..26}

FoldCase(c) ==
  IF c \in UpperCaseChars
    THEN LowerCase[CHOOSE k \in 1..26 : UpperCase[k] = c]
    ELSE c

HexDigits == <<"0","1","2","3","4","5","6","7","8","9","A","B","C","D","E","F">>

\* A character is one UTF-16 code unit.  The code units 0..127 in code order;
\* a code unit that has no one-character TLA+ string is written as the token
\* U+XXXX (U+0060, the grave accent, as TICK)
AsciiChars ==
  <<"U+0000","U+0001","U+0002","U+0003","U+0004","U+0005","U+0006","U+0007",
    "U+0008","\t",NL,"U+000B","\f","\r","U+000E","U+000F",
    "U+0010","U+0011","U+0012","U+0013","U+0014","U+0015","U+0016","U+0017",
    "U+0018","U+0019","U+001A","U+001B","U+001C","U+001D","U+001E","U+001F",
    SP,"!",QT,"#","$","%","&","'","(",")","*","+",COMMA,"-",".","/",
    "0","1","2","3","4","5","6","7","8","9",COLON,";","<","=",">","?",
    "@","A","B","C","D","E","F","G","H","I","J","K","L","M","N","O",
    "P","Q","R","S","T","U","V","W","X","Y","Z",LK,BS,RK,"^","_",
    TICK,"a","b","c","d","e","f","g","h","i","j","k","l","m","n","o",
    "p","q","r","s","t","u","v","w","x","y","z",LB,"|",RB,"~","U+007F">>

\* the character with code n (0..65535)
CharOfCode(n) ==
  IF n < 128 THEN AsciiChars[n + 1]
  ELSE "U+" \o HexDigits[((n \div 4096) % 16) + 1] \o HexDigits[((n \div 256) % 16) + 1]
            \o HexDigits[((n \div 16) % 16) + 1] \o HexDigits[(n % 16) + 1]

\* codes of the characters the regular expression class \s, String.trim() and
\* the string-to-number conversion treat as white space (WhiteSpace and
\* LineTerminator of ECMAScript)
WhiteSpaceCodes ==
  {9, 10, 11, 12, 13, 32, 160, 5760, 8232, 8233, 8239, 8287, 12288, 65279}
  \cup (8192..8202)

WhiteSpaceChars == {CharOfCode(n) : n \in WhiteSpaceCodes}

\* the characters the regular expression class \s and String.trim() accept
IsWhitespace(c) == c \in WhiteSpaceChars

IsDigit(c) == \E k \in 1..10 : Digits[k] = c
DigitValue(c) == (CHOOSE k \in 1..10 : Digits[k] = c) - 1

\* text.substring(from0) with a 0-based start, as a 1-based sequence
SubstringFrom(text, from0) == SubSeq(text, from0 + 1, Len(text))

\* text.substring(0, end0)
SubstringTo(text, end0) == SubSeq(text, 1, end0)

\* text.startsWith(prefix) at 1-based position p
MatchesAt(text, p, lit) ==
  /\ p >= 1
  /\ p + Len(lit) - 1 <= Len(text)
  /\ \A k \in 1..Len(lit) : text[p + k - 1] = lit[k]

MatchesAtFold(text, p, lit) ==
  /\ p >= 1
  /\ p + Len(lit) - 1 <= Len(text)
  /\ \A k \in 1..Len(lit) : FoldCase(text[p + k - 1]) = FoldCase(lit[k])

\* text.includes(lit)
Includes(text, lit) == \E p \in 1..(Len(text) + 1) : MatchesAt(text, p, lit)

\* concatenation of a sequence of texts
RECURSIVE Concat(_)
Concat(ts) == IF ts = <<>> THEN <<>> ELSE ts[1] \o Concat(Tail(ts))

\* first 1-based position >= p that holds no whitespace (Len(text)+1 if none)
RECURSIVE SkipWhitespace(_, _)
SkipWhitespace(text, p) ==
  IF p <= Len(text) /\ IsWhitespace(text[p]) THEN SkipWhitespace(text, p + 1) ELSE p

\* last 1-based position <= p that holds no whitespace (0 if none)
RECURSIVE SkipWhitespaceBack(_, _)
SkipWhitespaceBack(text, p) ==
  IF p >= 1 /\ IsWhitespace(text[p]) THEN SkipWhitespaceBack(text, p - 1) ELSE p

\* String.prototype.trim
Trim(text) == SubSeq(text, SkipWhitespace(text, 1), SkipWhitespaceBack(text, Len(text)))

\* decimal digits of a natural number, as template literals print it
RECURSIVE NatToText(_)
NatToText(n) ==
  IF n < 10 THEN <<Digits[n + 1]>>
  ELSE NatToText(n \div 10) \o <<Digits[(n % 10) + 1]>>

\* ------------------------------------------------------------------------
\* Balanced scan (extractBalancedJSON and the bracket loop of strategy 3)
\* ------------------------------------------------------------------------
\* one iteration of the for loop on character ch; st holds the loop's locals
\* and returned tells whether the iteration executed the return statement
ScanStepNoEscape(st, ch, open, close) ==
  IF ch = QT THEN [st EXCEPT !.inString = ~st.inString]
  ELSE IF ~st.inString /\ ch = open THEN [st EXCEPT !.count = st.count + 1]
  ELSE IF ~st.inString /\ ch = close
    THEN [st EXCEPT !.count = st.count - 1, !.returned = (st.count - 1 = 0)]
  ELSE st

ScanStepCountsInStrings(st, ch, open, close) ==
  IF st.escapeNext THEN [st EXCEPT !.escapeNext = FALSE]
  ELSE IF ch = BS THEN [st EXCEPT !.escapeNext = TRUE]
  ELSE IF ch = QT THEN [st EXCEPT !.inString = ~st.inString]
  ELSE IF ch = open THEN [st EXCEPT !.count = st.count + 1]
  ELSE IF ch = close
    THEN [st EXCEPT !.count = st.count - 1, !.returned = (st.count - 1 = 0)]
  ELSE st

ScanStep(st, ch, open, close) ==
  IF st.escapeNext THEN [st EXCEPT !.escapeNext = FALSE]
  ELSE IF ch = BS THEN [st EXCEPT !.escapeNext = TRUE]
  ELSE IF ch = QT THEN [st EXCEPT !.inString = ~st.inString]
  ELSE IF ~st.inString /\ ch = open THEN [st EXCEPT !.count = st.count + 1]
  ELSE IF ~st.inString /\ ch = close
    THEN [st EXCEPT !.count = st.count - 1, !.returned = (st.count - 1 = 0)]
  ELSE st

ScanStart == [count |-> 0, inString |-> FALSE, escapeNext |-> FALSE, returned |-> FALSE]

\* 1-based index at which the loop returns when resumed at index p in state
\* st; 0 when the loop runs off the end of the text
RECURSIVE ScanReturnIndex(_, _, _, _, _)
ScanReturnIndex(text, p, st, open, close) ==
  IF p > Len(text) THEN 0
  ELSE LET next == ScanStep(st, text[p], open, close)
       IN  IF next.returned THEN p
           ELSE ScanReturnIndex(text, p + 1, next, open, close)

ScanEndResultTruncated(text) == SubSeq(text, 1, Len(text) - 1)

\* the statement after the loop: return text
ScanEndResult(text) == text

extractBalancedJSON(text) ==
  LET e == ScanReturnIndex(text, 1, ScanStart, LB, RB)
  IN  IF e > 0 THEN SubstringTo(text, e) ELSE ScanEndResult(text)

\* ------------------------------------------------------------------------
\* Key-guided locator (extractJSONFromResponse)
\* ------------------------------------------------------------------------
Quoted(s) == <<QT>> \o s \o <<QT>>

\* /\{[\s\S]*?"<key>"[\s\S]*?:/i matches starting at 1-based position p
KeyPatternMatchesAt(text, p, key) ==
  /\ p <= Len(text)
  /\ text[p] = LB
  /\ \E q \in (p + 1)..Len(text) :
       /\ MatchesAtFold(text, q, Quoted(key))
       /\ \E c \in (q + Len(key) + 2)..Len(text) : text[c] = COLON

\* 1-based position of the next double quote at or after p (0 if none)
RECURSIVE NextQuote(_, _)
NextQuote(text, p) ==
  IF p > Len(text) THEN 0
  ELSE IF text[p] = QT THEN p
  ELSE NextQuote(text, p + 1)

\* /\{\s*"[^"]+"\s*:/ matches starting at 1-based position p
AnyObjectPatternMatchesAt(text, p) ==
  /\ p <= Len(text)
  /\ text[p] = LB
  /\ LET q1 == SkipWhitespace(text, p + 1)
     IN  /\ q1 <= Len(text)
         /\ text[q1] = QT
         /\ LET q2 == NextQuote(text, q1 + 1)
            IN  /\ q2 > q1 + 1
                /\ LET c == SkipWhitespace(text, q2 + 1)
                   IN  c <= Len(text) /\ text[c] = COLON

\* /\[\s*\{/ matches starting at 1-based position p
ArrayPatternMatchesAt(text, p) ==
  /\ p <= Len(text)
  /\ text[p] = LK
  /\ LET q == SkipWhitespace(text, p + 1)
     IN  q <= Len(text) /\ text[q] = LB

\* String.prototype.search: 0-based index of the leftmost match, -1 if none
SearchKeyPatternNearestBrace(text, key) ==
  IF \E p \in 1..Len(text) : KeyPatternMatchesAt(text, p, key)
    THEN (CHOOSE p \in 1..Len(text) :
            /\ KeyPatternMatchesAt(text, p, key)
            /\ \A r \in (p + 1)..Len(text) : ~KeyPatternMatchesAt(text, r, key)) - 1
    ELSE -1

SearchKeyPattern(text, key) ==
  IF \E p \in 1..Len(text) : KeyPatternMatchesAt(text, p, key)
    THEN (CHOOSE p \in 1..Len(text) :
            /\ KeyPatternMatchesAt(text, p, key)
            /\ \A r \in 1..(p - 1) : ~KeyPatternMatchesAt(text, r, key)) - 1
    ELSE -1

SearchAnyObjectPattern(text) ==
  IF \E p \in 1..Len(text) : AnyObjectPatternMatchesAt(text, p)
    THEN (CHOOSE p \in 1..Len(text) :
            /\ AnyObjectPatternMatchesAt(text, p)
            /\ \A r \in 1..(p - 1) : ~AnyObjectPatternMatchesAt(text, r)) - 1
    ELSE -1

SearchArrayPattern(text) ==
  IF \E p \in 1..Len(text) : ArrayPatternMatchesAt(text, p)
    THEN (CHOOSE p \in 1..Len(text) :
            /\ ArrayPatternMatchesAt(text, p)
            /\ \A r \in 1..(p - 1) : ~ArrayPatternMatchesAt(text, r))  - 1
    ELSE -1

\* whether the module has the array strategy (strategy 3)
HasArrayStrategy(module) == module = "solutions"

LocateObjectFirst(response, expectedKey, module) ==
  LET keyMatch == SearchKeyPattern(response, expectedKey)
      objectMatch == SearchAnyObjectPattern(response)
      arrayMatch == SearchArrayPattern(response)
  IN  IF objectMatch # -1
        THEN [strategy |-> 2, text |-> SubstringFrom(response, objectMatch)]
      ELSE IF keyMatch # -1
        THEN [strategy |-> 1, text |-> SubstringFrom(response, keyMatch)]
      ELSE IF HasArrayStrategy(module) /\ arrayMatch # -1
        THEN [strategy |-> 3, text |-> SubstringFrom(response, arrayMatch)]
      ELSE [strategy |-> 0, text |-> <<>>]

LocateAfterBrace(response, expectedKey, module) ==
  LET keyMatch == SearchKeyPattern(response, expectedKey)
      objectMatch == SearchAnyObjectPattern(response)
      arrayMatch == SearchArrayPattern(response)
  IN  IF keyMatch # -1
        THEN [strategy |-> 1, text |-> SubstringFrom(response, keyMatch + 1)]
      ELSE IF objectMatch # -1
        THEN [strategy |-> 2, text |-> SubstringFrom(response, objectMatch + 1)]
      ELSE IF HasArrayStrategy(module) /\ arrayMatch # -1
        THEN [strategy |-> 3, text |-> SubstringFrom(response, arrayMatch)]
      ELSE [strategy |-> 0, text |-> <<>>]

\* the strategy extractJSONFromResponse takes on response (0: none matched)
\* and the text it hands to the balanced scan
Locate(response, expectedKey, module) ==
  LET keyMatch == SearchKeyPattern(response, expectedKey)
      objectMatch == SearchAnyObjectPattern(response)
      arrayMatch == SearchArrayPattern(response)
  IN  IF keyMatch # -1
        THEN [strategy |-> 1, text |-> SubstringFrom(response, keyMatch)]
      ELSE IF objectMatch # -1
        THEN [strategy |-> 2, text |-> SubstringFrom(response, objectMatch)]
      ELSE IF HasArrayStrategy(module) /\ arrayMatch # -1
        THEN [strategy |-> 3, text |-> SubstringFrom(response, arrayMatch)]
      ELSE [strategy |-> 0, text |-> <<>>]

NoMatchResultEmptyList(response) == <<LK, RK>>

\* the last statement of extractJSONFromResponse: return response
NoMatchResult(response) == response

extractJSONFromResponse(response, expectedKey, module) ==
  LET loc == Locate(response, expectedKey, module)
  IN  IF loc.strategy \in {1, 2} THEN extractBalancedJSON(loc.text)
      ELSE IF loc.strategy = 3
        THEN LET e == ScanReturnIndex(loc.text, 1, ScanStart, LK, RK)
             IN  IF e > 0 THEN SubstringTo(loc.text, e) ELSE NoMatchResult(response)
      ELSE NoMatchResult(response)

\* ------------------------------------------------------------------------
\* Markdown fence stripping (Response Normalizer)
\* ------------------------------------------------------------------------
Fence == <<TICK, TICK, TICK>>

\* text.replace(/^```(?:json)?\n?/, '')
StripOpeningFence(text) ==
  IF ~MatchesAt(text, 1, Fence) THEN text
  ELSE LET a == IF MatchesAt(text, 4, <<"j", "s", "o", "n">>) THEN 8 ELSE 4
           b == IF a <= Len(text) /\ text[a] = NL THEN a + 1 ELSE a
       IN  SubSeq(text, b, Len(text))

\* text.replace(/\n?```$/, '')
StripClosingFence(text) ==
  LET n == Len(text)
  IN  IF ~MatchesAt(text, n - 2, Fence) THEN text
      ELSE IF n >= 4 /\ text[n - 3] = NL THEN SubSeq(text, 1, n - 4)
      ELSE SubSeq(text, 1, n - 3)

\* parseNeedsFromCompletion, lines 202-209
CleanNeedsCompletion(completion) ==
  LET cleaned == Trim(completion)
  IN  IF MatchesAt(cleaned, 1, Fence)
        THEN Trim(StripClosingFence(StripOpeningFence(cleaned)))
        ELSE cleaned

\* generateSolutions, lines 321-329
CleanSolutionsResponse(response) ==
  IF MatchesAt(Trim(response), 1, Fence)
    THEN Trim(StripClosingFence(StripOpeningFence(response)))
    ELSE response

\* ------------------------------------------------------------------------
\* JavaScript values and JSON.parse
\* ------------------------------------------------------------------------
\* A value is a record tagged by t: "undefined", "null", "bool", "num", "inf",
\* "nan", "str" (v: text), "arr" (v: sequence of values), "obj" (v: sequence
\* of <<key text, value>> pairs with distinct keys, in property order).
\* A finite number is a binary64 value, kept as the decimal Number::toString
\* prints for it: digits holds the significant digits of the shortest decimal
\* that rounds to the value (no leading and no trailing zero, <<>> for zero)
\* and the value is the binary64 nearest to 0.d1d2...dk * 10^exp; neg tells
\* +0 from -0.  [t |-> "throw", v |-> message] is the abrupt completion of
\* an operation that throws a TypeError with that message.
Undefined == [t |-> "undefined"]
Null == [t |-> "null"]
NaN == [t |-> "nan"]
Bool(b) == [t |-> "bool", v |-> b]
Zero == [t |-> "num", neg |-> FALSE, digits |-> <<>>, exp |-> 0]
NegativeZero == [t |-> "num", neg |-> TRUE, digits |-> <<>>, exp |-> 0]
Infinity(neg) == [t |-> "inf", neg |-> neg]
Throw(message) == [t |-> "throw", v |-> message]

\* typeof val === 'number'
IsNumber(val) == val.t \in {"num", "inf", "nan"}

\* number of zeros at the start of a digit sequence
LeadingZeros(ds) == Cardinality({k \in 1..Len(ds) : \A j \in 1..k : ds[j] = 0})

StripTrailingZeros(ds) ==
  SubSeq(ds, 1, Len(ds) - Cardinality({k \in 1..Len(ds) : \A j \in k..Len(ds) : ds[j] = 0}))

\* order of two digit sequences read as fractions 0.d1d2...: -1, 0 or 1
DigitAt(a, k) == IF k <= Len(a) THEN a[k] ELSE 0
FirstDifference(a, b, n) ==
  CHOOSE k \in 1..n : /\ DigitAt(a, k) # DigitAt(b, k)
                      /\ \A j \in 1..(k - 1) : DigitAt(a, j) = DigitAt(b, j)
DigitsOrder(a, b, n) ==
  IF \A k \in 1..n : DigitAt(a, k) = DigitAt(b, k) THEN 0
  ELSE IF DigitAt(a, FirstDifference(a, b, n)) < DigitAt(b, FirstDifference(a, b, n)) THEN -1
  ELSE 1
DigitsCompare(a, b) == DigitsOrder(a, b, IF Len(a) < Len(b) THEN Len(b) ELSE Len(a))

\* --- rounding of a decimal to binary64 --------------------------------------
\* The arithmetic is exact: a natural number of any size is a sequence of
\* limbs in base 10^4, most significant first, without leading zero limbs
\* (<<>> is 0).
LimbBase == 10000

BigStrip(a) ==
  SubSeq(a, Cardinality({k \in 1..Len(a) : \A j \in 1..k : a[j] = 0}) + 1, Len(a))

\* the limbs of a small natural number
RECURSIVE NatLimbs(_)
NatLimbs(n) == IF n = 0 THEN <<>> ELSE Append(NatLimbs(n \div LimbBase), n % LimbBase)

\* digit k of ds after pad zeros in front
PaddedDigit(ds, pad, k) == IF k <= pad THEN 0 ELSE ds[k - pad]

PaddedLimbs(ds, pad) ==
  [j \in 1..((Len(ds) + pad) \div 4) |->
     1000 * PaddedDigit(ds, pad, 4 * j - 3) + 100 * PaddedDigit(ds, pad, 4 * j - 2)
     + 10 * PaddedDigit(ds, pad, 4 * j - 1) + PaddedDigit(ds, pad, 4 * j)]

\* the natural number with the given decimal digits
BigOfDigits(ds) == BigStrip(PaddedLimbs(ds, (4 - (Len(ds) % 4)) % 4))

DropLeadingZeros(ds) == SubSeq(ds, LeadingZeros(ds) + 1, Len(ds))

\* the decimal digits of a natural number (<<>> for 0)
DigitsOfBig(a) ==
  DropLeadingZeros([k \in 1..(4 * Len(a)) |->
                      (a[(k + 3) \div 4] \div (10 ^ (3 - ((k - 1) % 4)))) % 10])

\* limbs lo..hi of a times m, plus carry: the limbs of the product and the
\* carry out of limb lo (the halves are done right to left)
RECURSIVE BigMulLimbs(_, _, _, _, _)
MulLimb(x) == [limbs |-> <<x % LimbBase>>, carry |-> x \div LimbBase]
MulJoin(l, r) == [limbs |-> l.limbs \o r.limbs, carry |-> l.carry]
BigMulLeft(a, m, lo, hi, r) == MulJoin(BigMulLimbs(a, m, lo, (lo + hi) \div 2, r.carry), r)
BigMulLimbs(a, m, lo, hi, carry) ==
  IF carry = 0 /\ m = 1 THEN [limbs |-> SubSeq(a, lo, hi), carry |-> 0]
  ELSE IF lo = hi THEN MulLimb(a[lo] * m + carry)
  ELSE BigMulLeft(a, m, lo, hi, BigMulLimbs(a, m, ((lo + hi) \div 2) + 1, hi, carry))

\* a * m + carry for a small factor m
WithCarry(r) == NatLimbs(r.carry) \o r.limbs
BigMul(a, m, carry) ==
  IF a = <<>> THEN NatLimbs(carry) ELSE WithCarry(BigMulLimbs(a, m, 1, Len(a), carry))

\* limbs lo..hi of a, after remainder r of the limbs before them, divided by
\* d: the limbs of the quotient and the remainder (the halves are done left
\* to right)
RECURSIVE BigDivLimbs(_, _, _, _, _)
DivLimb(x, d) == [limbs |-> <<x \div d>>, r |-> x % d]
DivJoin(l, h) == [limbs |-> l.limbs \o h.limbs, r |-> h.r]
BigDivRight(a, d, lo, hi, l) == DivJoin(l, BigDivLimbs(a, d, ((lo + hi) \div 2) + 1, hi, l.r))
BigDivLimbs(a, d, lo, hi, r) ==
  IF lo = hi THEN DivLimb(r * LimbBase + a[lo], d)
  ELSE BigDivRight(a, d, lo, hi, BigDivLimbs(a, d, lo, (lo + hi) \div 2, r))

\* quotient q and remainder r of a by a small divisor d
Quotient(x) == [q |-> BigStrip(x.limbs), r |-> x.r]
BigDiv(a, d) ==
  IF a = <<>> THEN [q |-> <<>>, r |-> 0] ELSE Quotient(BigDivLimbs(a, d, 1, Len(a), 0))

\* the largest powers of 2 and of 5 one step multiplies or divides by
PowerStep(b) == IF b = 2 THEN 17 ELSE 7

\* a scaled number is [q, sticky]: the floor q of a value and whether a
\* fraction was lost; here the floor of x.q / d, h being BigDiv(x.q, d)
Lost(x, h) == [q |-> h.q, sticky |-> x.sticky \/ h.r # 0]

\* x times b^n for b = 2 or b = 5: the product for n > 0, the floor of the
\* quotient by b^(-n) for n < 0
RECURSIVE BigScale(_, _, _)
BigScaleMore(x, b, n) == BigScale(x, b, n)
BigScale(x, b, n) ==
  IF x.q = <<>> \/ n = 0 THEN x
  ELSE IF n > PowerStep(b) \/ -n > PowerStep(b)
    THEN BigScaleMore(BigScale(x, b, n \div 2), b, n - (n \div 2))
  ELSE IF n > 0 THEN [q |-> BigMul(x.q, b ^ n, 0), sticky |-> x.sticky]
  ELSE Lost(x, BigDiv(x.q, b ^ (-n)))

\* order of two natural numbers: -1, 0 or 1
BigCompare(a, b) ==
  IF Len(a) # Len(b) THEN (IF Len(a) < Len(b) THEN -1 ELSE 1)
  ELSE DigitsOrder(a, b, Len(a))

BigIsOdd(a) == a # <<>> /\ a[Len(a)] % 2 = 1

\* binary64: 53 bits of significand, exponents of two from -1074 to 971;
\* 2^52, 2^53 and 2^54 in limbs
TwoTo52 == <<4503, 5996, 2737, 496>>
TwoTo53 == <<9007, 1992, 5474, 992>>
TwoTo54 == <<1, 8014, 3985, 948, 1984>>
MinBinaryExp == -1074
MaxBinaryExp == 971

\* every decimal 0.d1d2... * 10^exp with d1 # 0 and exp above MaxDecimalExp
\* rounds to Infinity, every one with exp below MinDecimalExp rounds to 0
MaxDecimalExp == 309
MinDecimalExp == -323

\* an integer that is at most log2(10^(exp - 1))
LogTwoBelow(exp) == (((exp - 1) * 3321928) \div 1000000) - 1

\* x times first[1]^first[2], then times second[1]^second[2]
ScaledBy(x, first, second) ==
  BigScale(BigScale(x, first[1], first[2]), second[1], second[2])

\* floor(0.ds * 10^exp * 2^s), and whether the floor lost a fraction: the
\* digits as an integer times 5^(exp - Len(ds)) * 2^(exp - Len(ds) + s),
\* a product before a quotient
ScaledFloor(ds, exp, s) ==
  ScaledBy([q |-> BigOfDigits(ds), sticky |-> FALSE],
           IF exp - Len(ds) + s >= 0 THEN <<2, exp - Len(ds) + s>> ELSE <<5, exp - Len(ds)>>,
           IF exp - Len(ds) + s >= 0 THEN <<5, exp - Len(ds)>> ELSE <<2, exp - Len(ds) + s>>)

\* x.q halved until it is below 2^54; s counts the power of two left
RECURSIVE HalvedBelow54(_, _)
HalvedBelow54(x, s) ==
  IF BigCompare(x.q, TwoTo54) >= 0 THEN HalvedBelow54(BigScale(x, 2, -1), s - 1)
  ELSE [q |-> x.q, sticky |-> x.sticky, s |-> s]

\* round to nearest, ties to even: n.q holds the significand and one more
\* bit, n.sticky whether bits below were lost, h is BigDiv(n.q, 2); the
\* result is m * 2^k
RoundedUp(n, h) ==
  IF h.r = 1 /\ (n.sticky \/ BigIsOdd(h.q)) THEN BigMul(h.q, 1, 1) ELSE h.q
Carried(n, m) ==
  IF m = TwoTo53 THEN [m |-> TwoTo52, k |-> 2 - n.s] ELSE [m |-> m, k |-> 1 - n.s]
RoundHalfEven(n) == Carried(n, RoundedUp(n, BigDiv(n.q, 2)))

\* the shift s that leaves 54 bits, no finer than 2^(MinBinaryExp - 1)
ClampedShift(s) == IF s > 1 - MinBinaryExp THEN 1 - MinBinaryExp ELSE s
RoundedAt(ds, exp, s) == RoundHalfEven(HalvedBelow54(ScaledFloor(ds, exp, s), s))

\* the binary64 nearest to 0.ds * 10^exp (ds[1] # 0, exp within
\* MinDecimalExp..MaxDecimalExp) as m * 2^k with m < 2^53, k >= -1074 and
\* m >= 2^52 unless k = -1074; it is Infinity when k exceeds MaxBinaryExp
NearestBinary(ds, exp) == RoundedAt(ds, exp, ClampedShift(54 - LogTwoBelow(exp)))

\* the exact decimal expansion 0.digits * 10^exp of m * 2^k
Expansion(b, ds) == [digits |-> ds, exp |-> Len(ds) + (IF b.k < 0 THEN b.k ELSE 0)]
BinaryExpansion(b) ==
  Expansion(b, DigitsOfBig(BigScale([q |-> b.m, sticky |-> FALSE],
                                    IF b.k < 0 THEN 5 ELSE 2,
                                    IF b.k < 0 THEN -b.k ELSE b.k).q))

\* n digits incremented by one unit of the last digit
IncrementedAt(ds, exp, last) ==
  [digits |-> [k \in 1..last |-> IF k = last THEN ds[k] + 1 ELSE ds[k]], exp |-> exp]
DigitsIncrement(ds, exp) ==
  IF \A k \in 1..Len(ds) : ds[k] = 9 THEN [digits |-> <<1>>, exp |-> exp + 1]
  ELSE IncrementedAt(ds, exp, CHOOSE k \in 1..Len(ds) :
                                 ds[k] # 9 /\ \A j \in (k + 1)..Len(ds) : ds[j] = 9)

\* a - 1 for a natural number a above 0
BigPred(a) ==
  BigStrip([k \in 1..Len(a) |->
              IF \A j \in k..Len(a) : a[j] = 0 THEN LimbBase - 1
              ELSE IF \A j \in (k + 1)..Len(a) : a[j] = 0 THEN a[k] - 1
              ELSE a[k]])

\* the values halfway from the binary64 b = m * 2^k to its two neighbours:
\* the one below is half as far when m = 2^52 above the subnormal range
HalfwayAbove(b) == [m |-> BigMul(b.m, 2, 1), k |-> b.k - 1]
HalfwayBelow(b) ==
  IF b.m = TwoTo52 /\ b.k > MinBinaryExp
    THEN [m |-> BigMul(BigPred(b.m), 4, 3), k |-> b.k - 2]
  ELSE [m |-> BigMul(BigPred(b.m), 2, 1), k |-> b.k - 1]

\* the decimals that round to b are those between lo and hi, the two ends
\* among them when m is even (ties go to the even significand); past the
\* largest binary64 hi is where the rounding gives Infinity
RoundingInterval(b) ==
  [lo |-> BinaryExpansion(HalfwayBelow(b)), hi |-> BinaryExpansion(HalfwayAbove(b)),
   closed |-> ~BigIsOdd(b.m)]

\* order of two decimals 0.digits * 10^exp with a first digit above 0
DecimalOrder(x, y) ==
  IF x.exp # y.exp THEN (IF x.exp < y.exp THEN -1 ELSE 1)
  ELSE DigitsCompare(x.digits, y.digits)

\* decimal c rounds to the binary64 of rounding interval iv
RoundsTo(c, iv) ==
  IF iv.closed THEN DecimalOrder(iv.lo, c) <= 0 /\ DecimalOrder(c, iv.hi) <= 0
  ELSE DecimalOrder(iv.lo, c) < 0 /\ DecimalOrder(c, iv.hi) < 0

\* Number::toString: the decimal with the fewest digits that rounds to the
\* binary64 and, among those, the one nearest to it (the even one if two are
\* as near); iv is its rounding interval, e its exact expansion, n the number
\* of digits tried, c the expansion cut after n digits and that cut
\* incremented, ok whether each rounds to it, rest the order of the digits
\* cut off and one half
RECURSIVE ShortestFrom(_, _, _)
ShortestPick(iv, e, n, c, ok, rest) ==
  IF ok[1] /\ ok[2]
    THEN IF rest < 0 \/ (rest = 0 /\ c[1].digits[n] % 2 = 0) THEN c[1] ELSE c[2]
  ELSE IF ok[1] THEN c[1]
  ELSE IF ok[2] THEN c[2]
  ELSE ShortestFrom(iv, e, n + 1)
ShortestOf(iv, e, n, c) ==
  ShortestPick(iv, e, n, c, [k \in 1..2 |-> RoundsTo(c[k], iv)],
               DigitsCompare(SubSeq(e.digits, n + 1, Len(e.digits)), <<5>>))
ShortestFrom(iv, e, n) ==
  IF n >= Len(e.digits) THEN e
  ELSE ShortestOf(iv, e, n, <<[digits |-> SubSeq(e.digits, 1, n), exp |-> e.exp],
                             DigitsIncrement(SubSeq(e.digits, 1, n), e.exp)>>)

\* a decimal of at most this many digits, away from the ends of the range,
\* is itself the shortest decimal of the binary64 it rounds to
ExactDigits == 15
ExactExpRange == (-300)..300

SignedZero(neg) == IF neg THEN NegativeZero ELSE Zero
Finite(neg, d) ==
  [t |-> "num", neg |-> neg, digits |-> StripTrailingZeros(d.digits), exp |-> d.exp]

\* the number of sign neg whose value is the binary64 b
BinaryNumber(neg, b) ==
  IF b.m = <<>> THEN SignedZero(neg)
  ELSE IF b.k > MaxBinaryExp THEN Infinity(neg)
  ELSE Finite(neg, ShortestFrom(RoundingInterval(b), BinaryExpansion(b), 1))

\* the number 0.core * 10^e with sign neg; core has no zero at either end
NormalNumber(neg, core, e) ==
  IF core = <<>> \/ e < MinDecimalExp THEN SignedZero(neg)
  ELSE IF e > MaxDecimalExp THEN Infinity(neg)
  ELSE IF Len(core) <= ExactDigits /\ e \in ExactExpRange
    THEN [t |-> "num", neg |-> neg, digits |-> core, exp |-> e]
  ELSE BinaryNumber(neg, NearestBinary(core, e))

\* the number 0.ds * 10^exp with sign neg, for any digit sequence ds
MakeNumber(neg, ds, exp) ==
  NormalNumber(neg, StripTrailingZeros(DropLeadingZeros(ds)), exp - LeadingZeros(ds))

\* decimal digits of a natural number, most significant first
RECURSIVE NatDigits(_)
NatDigits(n) == IF n < 10 THEN <<n>> ELSE Append(NatDigits(n \div 10), n % 10)

\* the number with decimal digits ds (no leading zero) and sign neg, for an
\* integer below 10^ExactDigits: it is a binary64 and prints as itself
SmallNumber(neg, ds) ==
  IF ds = <<0>> THEN Zero
  ELSE [t |-> "num", neg |-> neg, digits |-> StripTrailingZeros(ds), exp |-> Len(ds)]

\* the number value of integer n, n below 10^ExactDigits in magnitude
Num(n) == SmallNumber(n < 0, NatDigits(IF n < 0 THEN -n ELSE n))

\* x < y for two numbers that are not NaN (-0 is not below +0)
MagnitudeOrder(x, y) ==
  IF x.digits # <<>> /\ y.digits # <<>> /\ x.exp # y.exp
    THEN (IF x.exp < y.exp THEN -1 ELSE 1)
  ELSE DigitsCompare(x.digits, y.digits)
NumLess(x, y) ==
  IF x.t = "inf" THEN x.neg /\ ~(y.t = "inf" /\ y.neg)
  ELSE IF y.t = "inf" THEN ~y.neg
  ELSE IF x.digits = <<>> /\ y.digits = <<>> THEN FALSE
  ELSE IF x.neg # y.neg THEN x.neg
  ELSE MagnitudeOrder(x, y) = (IF x.neg THEN 1 ELSE -1)

Str(s) == [t |-> "str", v |-> s]
Arr(s) == [t |-> "arr", v |-> s]
Obj(pairs) == [t |-> "obj", v |-> pairs]

HasKey(pairs, key) == \E k \in 1..Len(pairs) : pairs[k][1] = key

\* key is an array index: the canonical decimal text of an integer in
\* 0..2^32-2; such property keys come first, in ascending numeric order
IsIndexKey(key) ==
  /\ key # <<>>
  /\ \A k \in 1..Len(key) : IsDigit(key[k])
  /\ key = <<"0">> \/ key[1] # "0"
  /\ \/ Len(key) < 10
     \/ /\ Len(key) = 10
        /\ DigitsCompare([k \in 1..10 |-> DigitValue(key[k])], <<4,2,9,4,9,6,7,2,9,4>>) <= 0

\* index key a is numerically below index key b
IndexKeyLess(a, b) ==
  \/ Len(a) < Len(b)
  \/ /\ Len(a) = Len(b)
     /\ DigitsCompare([k \in 1..Len(a) |-> DigitValue(a[k])],
                      [k \in 1..Len(b) |-> DigitValue(b[k])]) = -1

\* number of pairs that stay before a new property key in property order
PairsBefore(pairs, key) ==
  IF IsIndexKey(key)
    THEN Cardinality({k \in 1..Len(pairs) :
                        IsIndexKey(pairs[k][1]) /\ IndexKeyLess(pairs[k][1], key)})
    ELSE Len(pairs)

\* obj[key] = val on the pair list of an object
PutPair(pairs, key, val) ==
  IF HasKey(pairs, key)
    THEN [k \in 1..Len(pairs) |-> IF pairs[k][1] = key THEN <<key, val>> ELSE pairs[k]]
    ELSE LET put(n) == SubSeq(pairs, 1, n) \o <<<<key, val>>>> \o SubSeq(pairs, n + 1, Len(pairs))
         IN  put(PairsBefore(pairs, key))

\* value.key for a value that is neither null nor undefined; the keys the
\* generators read are not properties of strings, arrays, numbers or booleans
GetProperty(val, key) ==
  IF val.t = "obj" /\ HasKey(val.v, key)
    THEN val.v[CHOOSE k \in 1..Len(val.v) : val.v[k][1] = key][2]
    ELSE Undefined

\* reading a property of null or undefined throws a TypeError
PropertyReadThrows(val) == val.t \in {"null", "undefined"}

\* ToBoolean
Truthy(val) ==
  CASE val.t \in {"undefined", "null", "nan"} -> FALSE
    [] val.t = "bool" -> val.v
    [] val.t = "num" -> val.digits # <<>>
    [] val.t = "str" -> val.v # <<>>
    [] OTHER -> TRUE

\* a || b
OrElse(a, b) == IF Truthy(a) THEN a ELSE b

IsArray(val) == val.t = "arr"

\* --- JSON.parse -----------------------------------------------------------
\* A parse result is [ok, val, pos, msg]: for a value, pos is the 1-based
\* position after it; for a failure, pos is the 1-based position of the
\* cursor when the error is reported and msg the message the parser names
\* for it (<<>>: the message is chosen from the token at the cursor).
ParseFail(pos, msg) == [ok |-> FALSE, val |-> Undefined, pos |-> pos, msg |-> msg]
ParseOk(val, pos) == [ok |-> TRUE, val |-> val, pos |-> pos, msg |-> <<>>]

UnexpectedToken == <<>>
UnterminatedString == <<"U", "n", "t", "e", "r", "m", "i", "n", "a", "t", "e", "d", " ", "s", "t", "r", "i", "n", "g", " ", "i", "n", " ", "J", "S", "O", "N">>
BadControlCharacter == <<"B", "a", "d", " ", "c", "o", "n", "t", "r", "o", "l", " ", "c", "h", "a", "r", "a", "c", "t", "e", "r", " ", "i", "n", " ", "s", "t", "r", "i", "n", "g", " ", "l", "i", "t", "e", "r", "a", "l", " ", "i", "n", " ", "J", "S", "O", "N">>
BadEscapedCharacter == <<"B", "a", "d", " ", "e", "s", "c", "a", "p", "e", "d", " ", "c", "h", "a", "r", "a", "c", "t", "e", "r", " ", "i", "n", " ", "J", "S", "O", "N">>
BadUnicodeEscape == <<"B", "a", "d", " ", "U", "n", "i", "c", "o", "d", "e", " ", "e", "s", "c", "a", "p", "e", " ", "i", "n", " ", "J", "S", "O", "N">>
NoNumberAfterMinusSign == <<"N", "o", " ", "n", "u", "m", "b", "e", "r", " ", "a", "f", "t", "e", "r", " ", "m", "i", "n", "u", "s", " ", "s", "i", "g", "n", " ", "i", "n", " ", "J", "S", "O", "N">>
UnterminatedFractionalNumber == <<"U", "n", "t", "e", "r", "m", "i", "n", "a", "t", "e", "d", " ", "f", "r", "a", "c", "t", "i", "o", "n", "a", "l", " ", "n", "u", "m", "b", "e", "r", " ", "i", "n", " ", "J", "S", "O", "N">>
ExponentPartMissingNumber == <<"E", "x", "p", "o", "n", "e", "n", "t", " ", "p", "a", "r", "t", " ", "i", "s", " ", "m", "i", "s", "s", "i", "n", "g", " ", "a", " ", "n", "u", "m", "b", "e", "r", " ", "i", "n", " ", "J", "S", "O", "N">>
ExpectedPropNameOrRBrace == <<"E", "x", "p", "e", "c", "t", "e", "d", " ", "p", "r", "o", "p", "e", "r", "t", "y", " ", "n", "a", "m", "e", " ", "o", "r", " ", "'", "}", "'", " ", "i", "n", " ", "J", "S", "O", "N">>
ExpectedDoubleQuotedPropertyName == <<"E", "x", "p", "e", "c", "t", "e", "d", " ", "d", "o", "u", "b", "l", "e", "-", "q", "u", "o", "t", "e", "d", " ", "p", "r", "o", "p", "e", "r", "t", "y", " ", "n", "a", "m", "e", " ", "i", "n", " ", "J", "S", "O", "N">>
ExpectedColonAfterPropertyName == <<"E", "x", "p", "e", "c", "t", "e", "d", " ", "'", ":", "'", " ", "a", "f", "t", "e", "r", " ", "p", "r", "o", "p", "e", "r", "t", "y", " ", "n", "a", "m", "e", " ", "i", "n", " ", "J", "S", "O", "N">>
ExpectedCommaOrRBrace == <<"E", "x", "p", "e", "c", "t", "e", "d", " ", "'", ",", "'", " ", "o", "r", " ", "'", "}", "'", " ", "a", "f", "t", "e", "r", " ", "p", "r", "o", "p", "e", "r", "t", "y", " ", "v", "a", "l", "u", "e", " ", "i", "n", " ", "J", "S", "O", "N">>
ExpectedCommaOrRBrack == <<"E", "x", "p", "e", "c", "t", "e", "d", " ", "'", ",", "'", " ", "o", "r", " ", "'", "]", "'", " ", "a", "f", "t", "e", "r", " ", "a", "r", "r", "a", "y", " ", "e", "l", "e", "m", "e", "n", "t", " ", "i", "n", " ", "J", "S", "O", "N">>
UnexpectedNonWhiteSpaceCharacter == <<"U", "n", "e", "x", "p", "e", "c", "t", "e", "d", " ", "n", "o", "n", "-", "w", "h", "i", "t", "e", "s", "p", "a", "c", "e", " ", "c", "h", "a", "r", "a", "c", "t", "e", "r", " ", "a", "f", "t", "e", "r", " ", "J", "S", "O", "N">>

\* the white space of the JSON grammar: space, tab, line feed, carriage return
IsJSONWhitespace(c) == c \in {SP, "\t", NL, "\r"}

\* first 1-based position >= p that holds no JSON white space
RECURSIVE SkipJSONWhitespace(_, _)
SkipJSONWhitespace(text, p) ==
  IF p <= Len(text) /\ IsJSONWhitespace(text[p]) THEN SkipJSONWhitespace(text, p + 1) ELSE p

EscapeChars == <<QT, BS, "/", "b", "f", "n", "r", "t">>
EscapeValues == <<QT, BS, "/", CharOfCode(8), "\f", NL, "\r", "\t">>
IsEscapeChar(c) == \E k \in 1..8 : EscapeChars[k] = c
Unescape(c) == EscapeValues[CHOOSE k \in 1..8 : EscapeChars[k] = c]

IsHexDigit(c) == \E k \in 1..16 : FoldCase(HexDigits[k]) = FoldCase(c)
HexValue(c) == (CHOOSE k \in 1..16 : FoldCase(HexDigits[k]) = FoldCase(c)) - 1

\* the escape \uXXXX stands at position p (the backslash) of text
IsUnicodeEscapeAt(text, p) ==
  /\ p + 5 <= Len(text)
  /\ text[p + 1] = "u"
  /\ \A k \in 2..5 : IsHexDigit(text[p + k])

\* position of the first of the four characters after the u at p + 1 that
\* is no hexadecimal digit (the end of the text if it ends before)
BadUnicodeEscapeAt(text, p) ==
  p + 2 + Cardinality({k \in 2..5 :
                         \A j \in 2..k : p + j <= Len(text) /\ IsHexDigit(text[p + j])})

UnicodeEscapeValue(text, p) ==
  CharOfCode(4096 * HexValue(text[p + 2]) + 256 * HexValue(text[p + 3])
             + 16 * HexValue(text[p + 4]) + HexValue(text[p + 5]))

\* the characters below U+0020 may not appear raw inside a string literal
ControlChars == {CharOfCode(n) : n \in 0..31}
IsControlChar(c) == c \in ControlChars

\* the code units 0..255: after a backslash the scanner reports any other
\* character, and the end of the text, as an unexpected token
Latin1Chars == {CharOfCode(n) : n \in 0..255}
IsLatin1(c) == c \in Latin1Chars

\* body of a string literal from position p (after the opening quote)
RECURSIVE ParseStringBody(_, _, _)
ParseStringBody(text, p, acc) ==
  IF p > Len(text) THEN ParseFail(p, UnterminatedString)
  ELSE IF text[p] = QT THEN ParseOk(Str(acc), p + 1)
  ELSE IF text[p] = BS
    THEN IF p + 1 > Len(text) \/ ~IsLatin1(text[p + 1])
           THEN ParseFail(p + 1, UnexpectedToken)
         ELSE IF IsEscapeChar(text[p + 1])
           THEN ParseStringBody(text, p + 2, Append(acc, Unescape(text[p + 1])))
         ELSE IF IsUnicodeEscapeAt(text, p)
           THEN ParseStringBody(text, p + 6, Append(acc, UnicodeEscapeValue(text, p)))
         ELSE IF text[p + 1] = "u"
           THEN ParseFail(BadUnicodeEscapeAt(text, p), BadUnicodeEscape)
         ELSE ParseFail(p + 1, BadEscapedCharacter)
  ELSE IF IsControlChar(text[p]) THEN ParseFail(p, BadControlCharacter)
  ELSE ParseStringBody(text, p + 1, Append(acc, text[p]))

\* first position >= p of text that holds no decimal digit
DigitRunEnd(text, p) ==
  p + Cardinality({k \in p..Len(text) : \A j \in p..k : IsDigit(text[j])})

\* the digit values of text[a..b-1]
DigitValues(text, a, b) == [k \in 1..(b - a) |-> DigitValue(text[a + k - 1])]

\* bound on the exponents that are told apart: every larger exponent
\* overflows or underflows like this one
ExponentCap == 1000000

\* the natural number with the given digit values, capped at ExponentCap
RECURSIVE NatOfCore(_, _)
NatOfCore(core, k) == IF k = 0 THEN 0 ELSE NatOfCore(core, k - 1) * 10 + core[k]
NatOfDigits(ds) ==
  IF Len(ds) - LeadingZeros(ds) > 6 THEN ExponentCap
  ELSE NatOfCore(DropLeadingZeros(ds), Len(ds) - LeadingZeros(ds))

\* the exponent part whose digits are text[d..e-1], after the sign neg
ExponentDigits(text, neg, d, e) ==
  IF e = d THEN [ok |-> FALSE, val |-> 0, pos |-> d]
  ELSE [ok |-> TRUE, pos |-> e,
        val |-> IF neg THEN -NatOfDigits(DigitValues(text, d, e))
                ELSE NatOfDigits(DigitValues(text, d, e))]

\* position of the first digit of the exponent part that starts at p
ExponentStart(text, p) ==
  IF p + 1 <= Len(text) /\ text[p + 1] \in {"+", "-"} THEN p + 2 ELSE p + 1

\* an exponent part [eE][+-]?[0-9]+ at position p of text: [ok, val, pos];
\* without an "e" at p it is the exponent 0 ending at p, and without a digit
\* after the "e" and the sign it fails at the position of the missing digit
ExponentPartAt(text, p) ==
  IF p > Len(text) \/ text[p] \notin {"e", "E"}
    THEN [ok |-> TRUE, val |-> 0, pos |-> p]
  ELSE ExponentDigits(text, p + 1 <= Len(text) /\ text[p + 1] = "-",
                      ExponentStart(text, p), DigitRunEnd(text, ExponentStart(text, p)))

\* position after the fraction \.[0-9]* that starts at position i of text
\* (i itself if no "." stands there)
FractionEnd(text, i) ==
  IF i <= Len(text) /\ text[i] = "." THEN DigitRunEnd(text, i + 1) ELSE i

\* the digit values of the integer part text[d..i-1] and of the fraction
\* text[i+1..f-1]
LiteralDigits(text, d, i, f) ==
  DigitValues(text, d, i) \o (IF f > i THEN DigitValues(text, i + 1, f) ELSE <<>>)

\* the number literal of sign neg with integer part text[d..i-1], fraction
\* up to f and exponent part x
NumberLiteral(text, neg, d, i, f, x) ==
  IF i = d THEN ParseFail(d, NoNumberAfterMinusSign)
  ELSE IF f = i + 1 THEN ParseFail(f, UnterminatedFractionalNumber)
  ELSE IF ~x.ok THEN ParseFail(x.pos, ExponentPartMissingNumber)
  ELSE ParseOk(MakeNumber(neg, LiteralDigits(text, d, i, f), (i - d) + x.val), x.pos)

\* end of the integer part 0|[1-9][0-9]* at position d
IntegerEnd(text, d) ==
  IF d <= Len(text) /\ text[d] = "0" THEN d + 1 ELSE DigitRunEnd(text, d)

\* the number literal of sign neg whose digits start at position d
ParseUnsigned(text, neg, d) ==
  IF d + 1 <= Len(text) /\ text[d] = "0" /\ IsDigit(text[d + 1])
    THEN ParseFail(d + 1, UnexpectedToken)
  ELSE NumberLiteral(text, neg, d, IntegerEnd(text, d),
                     FractionEnd(text, IntegerEnd(text, d)),
                     ExponentPartAt(text, FractionEnd(text, IntegerEnd(text, d))))

\* -?(0|[1-9][0-9]*)(\.[0-9]+)?([eE][+-]?[0-9]+)? at position p
ParseNumber(text, p) == ParseUnsigned(text, text[p] = "-", IF text[p] = "-" THEN p + 1 ELSE p)

\* the literal lit, whose first character stands at position p: a failure
\* is reported at the first character that differs
ParseLiteral(text, p, lit, val) ==
  IF MatchesAt(text, p, lit) THEN ParseOk(val, p + Len(lit))
  ELSE ParseFail(p + Cardinality({k \in 1..Len(lit) :
                                    \A j \in 1..k : p + j - 1 <= Len(text)
                                                     /\ text[p + j - 1] = lit[j]}),
                 UnexpectedToken)

RECURSIVE ParseValue(_, _)
RECURSIVE ParseElements(_, _, _)
RECURSIVE ParseMembers(_, _, _)

\* the array continues after its element e: q is the position of the next token
ElementClose(text, acc, e, q) ==
  IF q > Len(text) THEN ParseFail(q, ExpectedCommaOrRBrack)
  ELSE IF text[q] = RK THEN ParseOk(Arr(Append(acc, e.val)), q + 1)
  ELSE IF text[q] = COMMA THEN ParseElements(text, q + 1, Append(acc, e.val))
  ELSE ParseFail(q, ExpectedCommaOrRBrack)

Element(text, acc, e) ==
  IF ~e.ok THEN e ELSE ElementClose(text, acc, e, SkipJSONWhitespace(text, e.pos))

\* elements of an array after '[' or ',' at position p
ParseElements(text, p, acc) == Element(text, acc, ParseValue(text, p))

\* the object continues after a member: q is the position of the next token
MemberClose(text, q, acc) ==
  IF q > Len(text) THEN ParseFail(q, ExpectedCommaOrRBrace)
  ELSE IF text[q] = RB THEN ParseOk(Obj(acc), q + 1)
  ELSE IF text[q] = COMMA THEN ParseMembers(text, q + 1, acc)
  ELSE ParseFail(q, ExpectedCommaOrRBrace)

\* the member named key has the parse m as its value
MemberValue(text, acc, key, m) ==
  IF ~m.ok THEN m
  ELSE MemberClose(text, SkipJSONWhitespace(text, m.pos), PutPair(acc, key.val.v, m.val))

\* after the name key, c is the position of the next token; a missing ':' has
\* a message of its own after the first name of an object only, after a later
\* name the token found is reported
MemberColon(text, acc, key, c) ==
  IF c > Len(text) \/ text[c] # COLON
    THEN ParseFail(c, IF acc = <<>> THEN ExpectedColonAfterPropertyName ELSE UnexpectedToken)
  ELSE MemberValue(text, acc, key, ParseValue(text, c + 1))

MemberName(text, acc, key) ==
  IF ~key.ok THEN key ELSE MemberColon(text, acc, key, SkipJSONWhitespace(text, key.pos))

\* a member is expected at position k
Member(text, acc, k) ==
  IF k > Len(text) \/ text[k] # QT
    THEN ParseFail(k, IF acc = <<>> THEN ExpectedPropNameOrRBrace
                      ELSE ExpectedDoubleQuotedPropertyName)
  ELSE MemberName(text, acc, ParseStringBody(text, k + 1, <<>>))

\* members of an object after '{' (acc is empty) or ',' at position p
ParseMembers(text, p, acc) == Member(text, acc, SkipJSONWhitespace(text, p))

\* the object whose first token after '{' stands at position q
ObjectFrom(text, q) ==
  IF q <= Len(text) /\ text[q] = RB THEN ParseOk(Obj(<<>>), q + 1)
  ELSE ParseMembers(text, q, <<>>)

\* the array whose first token after '[' stands at position q
ArrayFrom(text, q) ==
  IF q <= Len(text) /\ text[q] = RK THEN ParseOk(Arr(<<>>), q + 1)
  ELSE ParseElements(text, q, <<>>)

\* the literal that starts with the letter at position s
LiteralOf(c) ==
  CASE c = "t" -> [lit |-> <<"t", "r", "u", "e">>, val |-> Bool(TRUE)]
    [] c = "f" -> [lit |-> <<"f", "a", "l", "s", "e">>, val |-> Bool(FALSE)]
    [] c = "n" -> [lit |-> <<"n", "u", "l", "l">>, val |-> Null]

\* the value whose first token stands at position s
ValueAt(text, s) ==
  IF s > Len(text) THEN ParseFail(s, UnexpectedToken)
  ELSE IF text[s] = LB THEN ObjectFrom(text, SkipJSONWhitespace(text, s + 1))
  ELSE IF text[s] = LK THEN ArrayFrom(text, SkipJSONWhitespace(text, s + 1))
  ELSE IF text[s] = QT THEN ParseStringBody(text, s + 1, <<>>)
  ELSE IF text[s] = "-" \/ IsDigit(text[s]) THEN ParseNumber(text, s)
  ELSE IF text[s] \in {"t", "f", "n"}
    THEN ParseLiteral(text, s, LiteralOf(text[s]).lit, LiteralOf(text[s]).val)
  ELSE ParseFail(s, UnexpectedToken)

ParseValue(text, p) == ValueAt(text, SkipJSONWhitespace(text, p))

\* the parse r of the whole text, q the position of the first token after it
WholeText(text, r, q) ==
  IF q = Len(text) + 1 THEN r ELSE ParseFail(q, UnexpectedNonWhiteSpaceCharacter)

Parsed(text, r) == IF r.ok THEN WholeText(text, r, SkipJSONWhitespace(text, r.pos)) ELSE r

\* JSON.parse(text): [ok |-> FALSE] stands for the thrown SyntaxError
JSONParse(text) == Parsed(text, ParseValue(text, 1))

\* texts the message of the SyntaxError quotes whole whatever their length
SpecialStrings == { <<"N", "a", "N">>, <<"I", "n", "f", "i", "n", "i", "t", "y">>, <<"u", "n", "d", "e", "f", "i", "n", "e", "d">>, <<"[", "o", "b", "j", "e", "c", "t", " ", "O", "b", "j", "e", "c", "t", "]">> }

\* number of characters of the text the message quotes on either side of the
\* cursor, and the length from which on it quotes a part only
MaxContextCharacters == 10
MinOriginalSourceLengthForContext == 21

\* the part of text the message quotes around the 0-based position pos
ErrorContext(text, pos) ==
  IF Len(text) < MinOriginalSourceLengthForContext THEN Quoted(text)
  ELSE IF pos < MaxContextCharacters
    THEN Quoted(SubSeq(text, 1, pos + MaxContextCharacters)) \o <<".", ".", ".">>
  ELSE IF pos < Len(text) - MaxContextCharacters
    THEN <<".", ".", ".">> \o Quoted(SubSeq(text, pos - MaxContextCharacters + 1,
                                  pos + MaxContextCharacters)) \o <<".", ".", ".">>
  ELSE <<".", ".", ".">> \o Quoted(SubSeq(text, pos - MaxContextCharacters + 1, Len(text)))

\* the message of the SyntaxError of the failure r of JSONParse(text)
AtPosition(r) == <<" ", "a", "t", " ", "p", "o", "s", "i", "t", "i", "o", "n", " ">> \o NatToText(r.pos - 1)
SyntaxErrorMessage(text, r) ==
  IF r.msg # UnexpectedToken THEN r.msg \o AtPosition(r)
  ELSE IF r.pos > Len(text) THEN <<"U", "n", "e", "x", "p", "e", "c", "t", "e", "d", " ", "e", "n", "d", " ", "o", "f", " ", "J", "S", "O", "N", " ", "i", "n", "p", "u", "t">>
  ELSE IF text[r.pos] = "-" \/ IsDigit(text[r.pos])
    THEN <<"U", "n", "e", "x", "p", "e", "c", "t", "e", "d", " ", "n", "u", "m", "b", "e", "r", " ", "i", "n", " ", "J", "S", "O", "N">> \o AtPosition(r)
  ELSE IF text[r.pos] = QT THEN <<"U", "n", "e", "x", "p", "e", "c", "t", "e", "d", " ", "s", "t", "r", "i", "n", "g", " ", "i", "n", " ", "J", "S", "O", "N">> \o AtPosition(r)
  ELSE IF text \in SpecialStrings THEN Quoted(text) \o <<" ", "i", "s", " ", "n", "o", "t", " ", "v", "a", "l", "i", "d", " ", "J", "S", "O", "N">>
  ELSE <<"U", "n", "e", "x", "p", "e", "c", "t", "e", "d", " ", "t", "o", "k", "e", "n", " ", "'">> \o <<text[r.pos]>> \o <<"'", ",", " ">>
       \o ErrorContext(text, r.pos - 1) \o <<" ", "i", "s", " ", "n", "o", "t", " ", "v", "a", "l", "i", "d", " ", "J", "S", "O", "N">>

\* --- conversions of Math.max / Math.min arguments --------------------------
RECURSIVE JoinTexts(_)
JoinTexts(ts) ==
  IF ts = <<>> THEN <<>>
  ELSE IF Len(ts) = 1 THEN ts[1]
  ELSE ts[1] \o <<COMMA>> \o JoinTexts(Tail(ts))

DigitText(ds) == [k \in 1..Len(ds) |-> Digits[ds[k] + 1]]
Zeros(n) == [k \in 1..n |-> "0"]

\* Number::toString of a finite number: plain digits while the decimal point
\* lies within 21 places, exponent notation otherwise
ExponentText(e) ==
  <<"e", IF e < 0 THEN "-" ELSE "+">> \o NatToText(IF e < 0 THEN -e ELSE e)
MagnitudeText(d, k, n) ==
  IF k = 0 THEN <<"0">>
  ELSE IF k <= n /\ n <= 21 THEN d \o Zeros(n - k)
  ELSE IF 0 < n /\ n <= 21 THEN SubSeq(d, 1, n) \o <<".">> \o SubSeq(d, n + 1, k)
  ELSE IF -6 < n /\ n <= 0 THEN <<"0", ".">> \o Zeros(-n) \o d
  ELSE (IF k = 1 THEN d ELSE <<d[1], ".">> \o SubSeq(d, 2, k)) \o ExponentText(n - 1)
NumToText(x) ==
  (IF x.neg /\ x.digits # <<>> THEN <<"-">> ELSE <<>>)
  \o MagnitudeText(DigitText(x.digits), Len(x.digits), x.exp)

PrimitiveErrorMessage == <<"C", "a", "n", "n", "o", "t", " ", "c", "o", "n", "v", "e", "r", "t", " ", "o", "b", "j", "e", "c", "t", " ", "t", "o", " ", "p", "r", "i", "m", "i", "t", "i", "v", "e", " ", "v", "a", "l", "u", "e">>

\* ToPrimitive throws a TypeError on val: no value of a parsed text is
\* callable, so an own property toString of an object leaves it without a
\* method that gives a primitive (valueOf gives the object itself); the join
\* of an array converts every element that is not null or undefined
RECURSIVE ToPrimitiveThrows(_)
ToPrimitiveThrows(val) ==
  CASE val.t = "obj" -> HasKey(val.v, <<"t", "o", "S", "t", "r", "i", "n", "g">>)
    [] val.t = "arr" -> \E k \in 1..Len(val.v) : ToPrimitiveThrows(val.v[k])
    [] OTHER -> FALSE

\* String(val): the text, or the thrown TypeError
RECURSIVE ToText(_)
ToText(val) ==
  CASE ToPrimitiveThrows(val) -> Throw(PrimitiveErrorMessage)
    [] val.t = "str" -> val.v
    [] val.t = "num" -> NumToText(val)
    [] val.t = "inf" -> IF val.neg THEN <<"-", "I", "n", "f", "i", "n", "i", "t", "y">> ELSE <<"I", "n", "f", "i", "n", "i", "t", "y">>
    [] val.t = "bool" -> IF val.v THEN <<"t", "r", "u", "e">> ELSE <<"f", "a", "l", "s", "e">>
    [] val.t = "null" -> <<"n", "u", "l", "l">>
    [] val.t = "undefined" -> <<"u", "n", "d", "e", "f", "i", "n", "e", "d">>
    [] val.t = "nan" -> <<"N", "a", "N">>
    [] val.t = "arr" ->
         JoinTexts([k \in 1..Len(val.v) |->
                      IF val.v[k].t \in {"null", "undefined"} THEN <<>>
                      ELSE ToText(val.v[k])])
    [] OTHER -> <<"[", "o", "b", "j", "e", "c", "t", " ", "O", "b", "j", "e", "c", "t", "]">>

\* digits * m + carry on a sequence of decimal digit values
RECURSIVE MulAdd(_, _, _)
MulAdd(ds, m, carry) ==
  IF ds = <<>> THEN (IF carry = 0 THEN <<>> ELSE NatDigits(carry))
  ELSE Append(MulAdd(SubSeq(ds, 1, Len(ds) - 1), m, (ds[Len(ds)] * m + carry) \div 10),
              (ds[Len(ds)] * m + carry) % 10)

\* the decimal digits of the numeral s in the given radix, read from position p
RECURSIVE RadixDigits(_, _, _, _)
RadixDigits(s, p, radix, acc) ==
  IF p > Len(s) THEN acc
  ELSE RadixDigits(s, p + 1, radix, MulAdd(acc, radix, HexValue(s[p])))

\* s is 0x, 0o or 0b (either letter case) followed by digits of that radix
RadixOf(s) ==
  IF Len(s) < 2 \/ s[1] # "0" THEN 0
  ELSE IF FoldCase(s[2]) = "x" THEN 16
  ELSE IF FoldCase(s[2]) = "o" THEN 8
  ELSE IF FoldCase(s[2]) = "b" THEN 2
  ELSE 0

IsRadixLiteral(s) ==
  /\ RadixOf(s) # 0
  /\ Len(s) > 2
  /\ \A k \in 3..Len(s) : IsHexDigit(s[k]) /\ HexValue(s[k]) < RadixOf(s)

\* a numeric literal is [t |-> "lit", neg, ds, exp]: it stands for the number
\* MakeNumber(neg, ds, exp)
Literal(neg, ds, exp) == [t |-> "lit", neg |-> neg, ds |-> ds, exp |-> exp]

\* the literal of sign neg with i - 1 digits before the point, all digits ds
\* and exponent part x; NaN unless x ends the body
LiteralParts(neg, body, i, ds, x) ==
  IF ds = <<>> \/ ~x.ok \/ x.pos # Len(body) + 1 THEN NaN
  ELSE Literal(neg, ds, (i - 1) + x.val)

\* StrDecimalLiteral without its sign: digits with an optional fraction, or a
\* fraction alone, and an optional exponent part; NaN if body is none
DecimalLiteral(neg, body) ==
  LiteralParts(neg, body, DigitRunEnd(body, 1),
               LiteralDigits(body, 1, DigitRunEnd(body, 1), FractionEnd(body, DigitRunEnd(body, 1))),
               ExponentPartAt(body, FractionEnd(body, DigitRunEnd(body, 1))))

\* the digits ds of an integer as a literal
IntegerLiteral(ds) == Literal(FALSE, ds, Len(ds))

\* StringNumericLiteral of a trimmed text: the empty text is 0, then
\* Infinity with an optional sign, an unsigned hexadecimal, octal or binary
\* integer literal, or a decimal literal with an optional sign; NaN otherwise
StringNumericLiteral(s) ==
  IF s = <<>> THEN Zero
  ELSE IF s[1] \in {"-", "+"} /\ Tail(s) = <<"I", "n", "f", "i", "n", "i", "t", "y">> THEN Infinity(s[1] = "-")
  ELSE IF s = <<"I", "n", "f", "i", "n", "i", "t", "y">> THEN Infinity(FALSE)
  ELSE IF IsRadixLiteral(s) THEN IntegerLiteral(RadixDigits(s, 3, RadixOf(s), <<>>))
  ELSE DecimalLiteral(s[1] = "-", IF s[1] \in {"-", "+"} THEN Tail(s) ELSE s)

\* the number a literal stands for
LiteralValue(l) == IF l.t = "lit" THEN MakeNumber(l.neg, l.ds, l.exp) ELSE l

\* Number(text) (StringToNumber): white space is trimmed first
TextToNumber(text) == LiteralValue(StringNumericLiteral(Trim(text)))

\* ToNumber: the number, or the thrown TypeError
ToNumber(val) ==
  CASE ToPrimitiveThrows(val) -> Throw(PrimitiveErrorMessage)
    [] val.t \in {"num", "inf"} -> val
    [] val.t = "bool" -> IF val.v THEN Num(1) ELSE Zero
    [] val.t = "null" -> Zero
    [] val.t \in {"undefined", "nan"} -> NaN
    [] OTHER -> TextToNumber(ToText(val))

\* the larger (max) or the smaller of two numbers: NaN wins, -0 is below +0
Extreme(max, x, y) ==
  IF x.t = "nan" \/ y.t = "nan" THEN NaN
  ELSE IF NumLess(x, y) THEN (IF max THEN y ELSE x)
  ELSE IF NumLess(y, x) THEN (IF max THEN x ELSE y)
  ELSE IF (x = NegativeZero) = max THEN y ELSE x

\* Math.max or Math.min of the arguments args, nums being their conversions:
\* the arguments are converted in order (an argument that is a thrown error
\* stands for an abrupt completion of its evaluation)
ExtremeOf(max, args, nums) ==
  IF args[1].t = "throw" THEN args[1]
  ELSE IF nums[1].t = "throw" THEN nums[1]
  ELSE IF nums[2].t = "throw" THEN nums[2]
  ELSE Extreme(max, nums[1], nums[2])

MathExtreme(max, args) == ExtremeOf(max, args, [k \in 1..2 |-> ToNumber(args[k])])

\* Math.max(a, b) and Math.min(a, b)
MathMax(a, b) == MathExtreme(TRUE, <<a, b>>)
MathMin(a, b) == MathExtreme(FALSE, <<a, b>>)

\* ------------------------------------------------------------------------
\* Decode and validate: needs (parseNeedsFromCompletion)
\* ------------------------------------------------------------------------
ValidCategories ==
  << <<"a", "u", "t", "o", "m", "a", "t", "i", "o", "n">>, <<"d", "a", "t", "a", "_", "i", "n", "s", "i", "g", "h", "t", "s">>, <<"c", "u", "s", "t", "o", "m", "e", "r", "_", "e", "x", "p", "e", "r", "i", "e", "n", "c", "e">>,
     <<"o", "p", "e", "r", "a", "t", "i", "o", "n", "a", "l", "_", "e", "f", "f", "i", "c", "i", "e", "n", "c", "y">>, <<"c", "o", "m", "p", "e", "t", "i", "t", "i", "v", "e", "_", "a", "d", "v", "a", "n", "t", "a", "g", "e">>,
     <<"r", "i", "s", "k", "_", "m", "a", "n", "a", "g", "e", "m", "e", "n", "t">>, <<"c", "o", "s", "t", "_", "r", "e", "d", "u", "c", "t", "i", "o", "n">>, <<"i", "n", "n", "o", "v", "a", "t", "i", "o", "n">> >>

ValidPriorities == << <<"l", "o", "w">>, <<"m", "e", "d", "i", "u", "m">>, <<"h", "i", "g", "h">>, <<"c", "r", "i", "t", "i", "c", "a", "l">> >>

\* Array.prototype.includes on an array of strings
ListIncludes(list, val) ==
  val.t = "str" /\ \E k \in 1..Len(list) : list[k] = val.v

validateCategory(category) ==
  IF ListIncludes(ValidCategories, category) THEN category
  ELSE Str(<<"o", "p", "e", "r", "a", "t", "i", "o", "n", "a", "l", "_", "e", "f", "f", "i", "c", "i", "e", "n", "c", "y">>)

validatePriority(priority) ==
  IF ListIncludes(ValidPriorities, priority) THEN priority
  ELSE Str(<<"m", "e", "d", "i", "u", "m">>)

DefaultScore == 5
MinScore == 1
MaxScore == 10

\* Math.min(Math.max(raw || 5, 1), 10): the number, or the TypeError thrown
\* while Math.max converts the raw score
DecodeScore(raw) ==
  MathMin(MathMax(OrElse(raw, Num(DefaultScore)), Num(MinScore)), Num(MaxScore))

ListOrDefault(raw, placeholder) ==
  IF IsArray(raw) THEN raw ELSE Arr(<<Str(placeholder)>>)

\* `need_${trendId}_${Date.now()}_${index}`
NeedId(trendId, now, index) ==
  <<"n", "e", "e", "d", "_">> \o trendId \o <<"_">> \o NatToText(now) \o <<"_">> \o NatToText(index)

\* new Date().toISOString() at clock reading now
IsoDate(now) == [t |-> "isodate", v |-> now]

\* new Date() at clock reading now
DateAt(now) == [t |-> "date", v |-> now]

\* the score fields of a need, in the order the callback decodes them
ScoreFields == << <<"i", "m", "p", "a", "c", "t", "S", "c", "o", "r", "e">>, <<"e", "f", "f", "o", "r", "t", "S", "c", "o", "r", "e">>, <<"u", "r", "g", "e", "n", "c", "y", "S", "c", "o", "r", "e">> >>

\* the callback of parsedNeeds.map; index is 0-based, clock holds the three
\* clock readings of the callback in call order
NeedFromRaw(need, index, trendId, companyId, clock) ==
  Obj(<< << <<"i", "d">>, Str(NeedId(trendId, clock[1], index)) >>,
         << <<"t", "r", "e", "n", "d", "I", "d">>, Str(trendId) >>,
         << <<"c", "o", "m", "p", "a", "n", "y", "I", "d">>, Str(companyId) >>,
         << <<"t", "i", "t", "l", "e">>, OrElse(GetProperty(need, <<"t", "i", "t", "l", "e">>),
                              Str(<<"G", "e", "n", "e", "r", "a", "t", "e", "d", " ", "N", "e", "e", "d", " ">> \o NatToText(index + 1))) >>,
         << <<"d", "e", "s", "c", "r", "i", "p", "t", "i", "o", "n">>, OrElse(GetProperty(need, <<"d", "e", "s", "c", "r", "i", "p", "t", "i", "o", "n">>),
                                    Str(<<"A", "I", "-", "g", "e", "n", "e", "r", "a", "t", "e", "d", " ", "b", "u", "s", "i", "n", "e", "s", "s", " ", "n", "e", "e", "d">>)) >>,
         << <<"c", "a", "t", "e", "g", "o", "r", "y">>, validateCategory(GetProperty(need, <<"c", "a", "t", "e", "g", "o", "r", "y">>)) >>,
         << <<"p", "r", "i", "o", "r", "i", "t", "y">>, validatePriority(GetProperty(need, <<"p", "r", "i", "o", "r", "i", "t", "y">>)) >> >>
      \o [k \in 1..3 |-> <<ScoreFields[k], DecodeScore(GetProperty(need, ScoreFields[k]))>>]
      \o
      << << <<"s", "t", "a", "k", "e", "h", "o", "l", "d", "e", "r", "s">>, ListOrDefault(GetProperty(need, <<"s", "t", "a", "k", "e", "h", "o", "l", "d", "e", "r", "s">>),
                                            <<"M", "a", "n", "a", "g", "e", "m", "e", "n", "t">>) >>,
         << <<"b", "u", "s", "i", "n", "e", "s", "s", "V", "a", "l", "u", "e">>, OrElse(GetProperty(need, <<"b", "u", "s", "i", "n", "e", "s", "s", "V", "a", "l", "u", "e">>),
                                      Str(<<"E", "x", "p", "e", "c", "t", "e", "d", " ", "t", "o", " ", "i", "m", "p", "r", "o", "v", "e", " ", "b", "u", "s", "i", "n", "e", "s", "s", " ", "o", "p", "e", "r", "a", "t", "i", "o", "n", "s">>)) >>,
         << <<"r", "i", "s", "k", "s">>, ListOrDefault(GetProperty(need, <<"r", "i", "s", "k", "s">>),
                                     <<"I", "m", "p", "l", "e", "m", "e", "n", "t", "a", "t", "i", "o", "n", " ", "c", "h", "a", "l", "l", "e", "n", "g", "e", "s">>) >>,
         << <<"s", "u", "c", "c", "e", "s", "s", "M", "e", "t", "r", "i", "c", "s">>, ListOrDefault(GetProperty(need, <<"s", "u", "c", "c", "e", "s", "s", "M", "e", "t", "r", "i", "c", "s">>),
                                              <<"S", "u", "c", "c", "e", "s", "s", " ", "m", "e", "a", "s", "u", "r", "e", "m", "e", "n", "t", " ", "n", "e", "e", "d", "e", "d">>) >>,
         << <<"c", "r", "e", "a", "t", "e", "d", "_", "a", "t">>, IsoDate(clock[2]) >>,
         << <<"u", "p", "d", "a", "t", "e", "d", "_", "a", "t">>, IsoDate(clock[3]) >> >>)

\* outcome of a call: returned items or a thrown error (the parts of its
\* message, outermost wrapper first; the message is their concatenation)
Returned(list) == [status |-> "ok", items |-> list, error |-> <<>>]
Thrown(parts) == [status |-> "error", items |-> <<>>, error |-> parts]

\* the message of the TypeError of reading property name of val, which is
\* null or undefined
PropertyReadMessage(val, name) ==
  <<"C", "a", "n", "n", "o", "t", " ", "r", "e", "a", "d", " ", "p", "r", "o", "p", "e", "r", "t", "i", "e", "s", " ", "o", "f", " ">> \o (IF val.t = "null" THEN <<"n", "u", "l", "l">> ELSE <<"u", "n", "d", "e", "f", "i", "n", "e", "d">>)
  \o <<" ", "(", "r", "e", "a", "d", "i", "n", "g", " ", "'">> \o name \o <<"'", ")">>

\* the message of the TypeError of Object.keys(null)
KeysOfNullMessage == <<"C", "a", "n", "n", "o", "t", " ", "c", "o", "n", "v", "e", "r", "t", " ", "u", "n", "d", "e", "f", "i", "n", "e", "d", " ", "o", "r", " ", "n", "u", "l", "l", " ", "t", "o", " ", "o", "b", "j", "e", "c", "t">>

\* the messages of the TypeErrors the decoders can throw
TypeErrorMessages ==
  { PropertyReadMessage(val, name) : val \in {Null, Undefined}, name \in { <<"n", "e", "e", "d", "s">>, <<"t", "i", "t", "l", "e">> } }
  \cup { KeysOfNullMessage, PrimitiveErrorMessage }

ParseErrorPrefix == <<"F", "a", "i", "l", "e", "d", " ", "t", "o", " ", "p", "a", "r", "s", "e", " ", "A", "I", " ", "r", "e", "s", "p", "o", "n", "s", "e", " ", "a", "s", " ", "J", "S", "O", "N", ":", " ">>

InvalidStructureMessage ==
  <<"I", "n", "v", "a", "l", "i", "d", " ", "J", "S", "O", "N", " ", "s", "t", "r", "u", "c", "t", "u", "r", "e", ":", " ", "e", "x", "p", "e", "c", "t", "e", "d", " ", "a", "r", "r", "a", "y", " ", "o", "r", " ", "o", "b", "j", "e", "c", "t", " ", "w", "i", "t", "h", " ", "\"", "n", "e", "e", "d", "s", "\"", " ", "p", "r", "o", "p", "e", "r", "t", "y">>

\* the list of raw items the property needs of the parsed value exposes
NeedsProperty(n) ==
  IF Truthy(n) /\ IsArray(n)
    THEN [ok |-> TRUE, list |-> n.v, error |-> <<>>]
    ELSE [ok |-> FALSE, list |-> <<>>, error |-> <<InvalidStructureMessage>>]

\* lines 226-234: the list of raw items the parsed value exposes
NeedsListOf(parsed) ==
  IF IsArray(parsed) THEN [ok |-> TRUE, list |-> parsed.v, error |-> <<>>]
  ELSE IF PropertyReadThrows(parsed)
    THEN [ok |-> FALSE, list |-> <<>>, error |-> <<PropertyReadMessage(parsed, <<"n", "e", "e", "d", "s">>)>>]
  ELSE NeedsProperty(GetProperty(parsed, <<"n", "e", "e", "d", "s">>))

\* the first member of failures that is not empty (<<>> if all are)
FirstFailure(failures) ==
  IF \A k \in 1..Len(failures) : failures[k] = <<>> THEN <<>>
  ELSE failures[CHOOSE k \in 1..Len(failures) :
                  /\ failures[k] # <<>>
                  /\ \A j \in 1..(k - 1) : failures[j] = <<>>]

\* the message of a thrown error as message parts, <<>> for a value
FailureOf(val) == IF val.t = "throw" THEN <<val.v>> ELSE <<>>

\* the TypeError the callback of parsedNeeds.map throws on the raw item need
\* (message parts; <<>> when it throws none): the read of need.title when
\* need is null, or the first score Math.max cannot convert
NeedCallbackFailure(need) ==
  IF PropertyReadThrows(need) THEN <<PropertyReadMessage(need, <<"t", "i", "t", "l", "e">>)>>
  ELSE FirstFailure([k \in 1..3 |-> FailureOf(DecodeScore(GetProperty(need, ScoreFields[k])))])

\* the error thrown by the shape check or the map over the raw items l
MapFailure(l) ==
  IF ~l.ok THEN l.error
  ELSE FirstFailure([k \in 1..Len(l.list) |-> NeedCallbackFailure(l.list[k])])

\* the error thrown inside the try block of parseNeedsFromCompletion on the
\* extracted text, r being its parse (message parts; <<>> when nothing is
\* thrown)
NeedsFailureOf(jsonContent, r) ==
  IF ~r.ok THEN <<ParseErrorPrefix, SyntaxErrorMessage(jsonContent, r)>>
  ELSE MapFailure(NeedsListOf(r.val))

NeedsFailure(jsonContent) == NeedsFailureOf(jsonContent, JSONParse(jsonContent))

\* the outcome of the try block: failure is the error thrown in it, list the
\* raw items
DecodedNeeds(failure, list, trendId, companyId, clocks) ==
  IF failure # <<>>
    THEN Thrown(<< <<"F", "a", "i", "l", "e", "d", " ", "t", "o", " ", "p", "a", "r", "s", "e", " ", "A", "I", "-", "g", "e", "n", "e", "r", "a", "t", "e", "d", " ", "n", "e", "e", "d", "s", ":", " ">> >> \o failure)
    ELSE Returned([k \in 1..Len(list) |->
                     NeedFromRaw(list[k], k - 1, trendId, companyId, clocks[k])])

\* lines 214-258 on the extracted text, r being its parse; clocks[k] are the
\* clock readings of the k-th callback
DecodeParsedNeeds(jsonContent, r, trendId, companyId, clocks) ==
  DecodedNeeds(NeedsFailureOf(jsonContent, r), NeedsListOf(r.val).list,
               trendId, companyId, clocks)

DecodeNeeds(jsonContent, trendId, companyId, clocks) ==
  DecodeParsedNeeds(jsonContent, JSONParse(jsonContent), trendId, companyId, clocks)

parseNeedsFromCompletion(completion, trendId, companyId, clocks) ==
  DecodeNeeds(extractJSONFromResponse(CleanNeedsCompletion(completion), <<"n", "e", "e", "d", "s">>, "needs"),
              trendId, companyId, clocks)

ZeroNeedsMessage ==
  <<"A", "I", " ", "g", "e", "n", "e", "r", "a", "t", "e", "d", " ", "z", "e", "r", "o", " ", "n", "e", "e", "d", "s", ".", " ", "P", "l", "e", "a", "s", "e", " ", "t", "r", "y", " ", "a", "g", "a", "i", "n", " ", "w", "i", "t", "h", " ", "d", "i", "f", "f", "e", "r", "e", "n", "t", " ", "p", "a", "r", "a", "m", "e", "t", "e", "r", "s", ".">>

\* lines 116-132 of generateNeedsFromTrend on the result of the parse
NeedsResultNoCheck(parsedOutcome) == parsedOutcome

NeedsResult(parsedOutcome) ==
  IF parsedOutcome.status = "ok" /\ Len(parsedOutcome.items) = 0
    THEN Thrown(<<ZeroNeedsMessage>>)
    ELSE parsedOutcome

\* ------------------------------------------------------------------------
\* Decode and validate: solutions (generateSolutions)
\* ------------------------------------------------------------------------
\* `solution_${Date.now()}_${index}`
SolutionId(now, index) ==
  <<"s", "o", "l", "u", "t", "i", "o", "n", "_">> \o NatToText(now) \o <<"_">> \o NatToText(index)

\* own enumerable properties that { ...sol } copies, in order
SpreadPairs(sol) ==
  CASE sol.t = "obj" -> sol.v
    [] sol.t = "arr" -> [k \in 1..Len(sol.v) |-> <<NatToText(k - 1), sol.v[k]>>]
    [] sol.t = "str" -> [k \in 1..Len(sol.v) |-> <<NatToText(k - 1), Str(<<sol.v[k]>>)>>]
    [] OTHER -> <<>>

RECURSIVE PutAll(_, _)
PutAll(pairs, more) ==
  IF more = <<>> THEN pairs
  ELSE PutAll(PutPair(pairs, more[1][1], more[1][2]), Tail(more))

SolutionSpreadWrong(base, sol) ==
  PutAll(SpreadPairs(sol), base)

\* { id, needId, ...sol }: the properties of sol are assigned after id, needId
SolutionSpread(base, sol) ==
  PutAll(base, SpreadPairs(sol))

\* the callback of solutions.map; clock holds its two clock readings
SolutionFromRaw(sol, index, needId, clock) ==
  Obj(PutPair(SolutionSpread(<< << <<"i", "d">>, Str(SolutionId(clock[1], index)) >>,
                                << <<"n", "e", "e", "d", "I", "d">>, Str(needId) >> >>, sol),
              <<"c", "r", "e", "a", "t", "e", "d", "A", "t">>, DateAt(clock[2])))

\* serverConfig.errors.messages, by key
GenerationFailed == << <<"g", "e", "n", "e", "r", "a", "t", "i", "o", "n", "_", "f", "a", "i", "l", "e", "d">> >>
ApiKeyMissing == << <<"a", "p", "i", "_", "k", "e", "y", "_", "m", "i", "s", "s", "i", "n", "g">> >>
RateLimit == << <<"r", "a", "t", "e", "_", "l", "i", "m", "i", "t">> >>
NetworkError == << <<"n", "e", "t", "w", "o", "r", "k", "_", "e", "r", "r", "o", "r">> >>

\* a rejection of the completion call: isError tells whether the value it
\* carries is an Error, message is the message of that Error
NoRejection == [happened |-> FALSE, isError |-> FALSE, message |-> <<>>]
Rejection(isError, message) == [happened |-> TRUE, isError |-> isError, message |-> message]

RejectionMessages ==
  { <<"I", "n", "v", "a", "l", "i", "d", " ", "A", "P", "I", " ", "k", "e", "y">>, <<"r", "a", "t", "e", " ", "l", "i", "m", "i", "t", " ", "e", "x", "c", "e", "e", "d", "e", "d">>, <<"n", "e", "t", "w", "o", "r", "k", " ", "t", "i", "m", "e", "o", "u", "t">>, <<"o", "v", "e", "r", "l", "o", "a", "d", "e", "d">>,
    <<"R", "a", "t", "e", " ", "L", "i", "m", "i", "t", " ", "a", "n", "d", " ", "N", "e", "t", "w", "o", "r", "k">> }

Rejections ==
  {Rejection(TRUE, msg) : msg \in RejectionMessages} \cup {Rejection(FALSE, <<>>)}

\* the catch block of generateNeedsFromTrend (lines 124-132)
NeedsCatch(parts, isError) ==
  IF isError THEN Thrown(parts) ELSE Thrown(GenerationFailed)

InvalidFormatMessage == <<"I", "n", "v", "a", "l", "i", "d", " ", "r", "e", "s", "p", "o", "n", "s", "e", " ", "f", "o", "r", "m", "a", "t", " ", "f", "r", "o", "m", " ", "A", "I">>
NoTextResponseMessage == <<"N", "o", " ", "t", "e", "x", "t", " ", "r", "e", "s", "p", "o", "n", "s", "e", " ", "f", "r", "o", "m", " ", "A", "n", "t", "h", "r", "o", "p", "i", "c">>

\* lines 347-354: the check of the list of solutions
SolutionsCheck(solutions) ==
  IF ~IsArray(solutions) \/ Len(solutions.v) = 0 THEN <<InvalidFormatMessage>> ELSE <<>>

\* the error thrown inside the try block of generateSolutions on the
\* extracted text, r being its parse (lines 336-354; <<>> when nothing is
\* thrown); Object.keys(null) throws inside the inner try block
SolutionsFailureOf(jsonContent, r) ==
  IF ~r.ok THEN <<ParseErrorPrefix, SyntaxErrorMessage(jsonContent, r)>>
  ELSE IF PropertyReadThrows(r.val) THEN <<ParseErrorPrefix, KeysOfNullMessage>>
  ELSE SolutionsCheck(OrElse(GetProperty(r.val, <<"s", "o", "l", "u", "t", "i", "o", "n", "s">>), Arr(<<>>)))

SolutionsFailure(jsonContent) == SolutionsFailureOf(jsonContent, JSONParse(jsonContent))

\* the catch block of generateSolutions (lines 362-382) on an error with the
\* given message parts; isError: the thrown value is an Error
Classified(isError, message) ==
  IF isError /\ Includes(message, <<"A", "P", "I", " ", "k", "e", "y">>) THEN Thrown(ApiKeyMissing)
  ELSE IF isError /\ Includes(message, <<"r", "a", "t", "e", " ", "l", "i", "m", "i", "t">>) THEN Thrown(RateLimit)
  ELSE IF isError /\ Includes(message, <<"n", "e", "t", "w", "o", "r", "k">>) THEN Thrown(NetworkError)
  ELSE Thrown(GenerationFailed)
SolutionsCatch(parts, isError) == Classified(isError, Concat(parts))

\* the outcome of the try block and the catch block: failure is the error
\* thrown in the try block, solutions the value of parsed.solutions
DecodedSolutions(failure, solutions, needId, clocks) ==
  IF failure # <<>> THEN SolutionsCatch(failure, TRUE)
  ELSE Returned([k \in 1..Len(solutions.v) |->
                   SolutionFromRaw(solutions.v[k], k - 1, needId, clocks[k])])

\* lines 336-382 on the extracted text, r being its parse
DecodeParsedSolutions(jsonContent, r, needId, clocks) ==
  DecodedSolutions(SolutionsFailureOf(jsonContent, r), GetProperty(r.val, <<"s", "o", "l", "u", "t", "i", "o", "n", "s">>),
                   needId, clocks)

DecodeSolutions(jsonContent, needId, clocks) ==
  DecodeParsedSolutions(jsonContent, JSONParse(jsonContent), needId, clocks)

\* the raw list the solutions decode maps over (empty when it throws), r
\* being the parse of the extracted text
SolutionsList(r) ==
  IF r.ok /\ ~PropertyReadThrows(r.val) /\ IsArray(OrElse(GetProperty(r.val, <<"s", "o", "l", "u", "t", "i", "o", "n", "s">>), Arr(<<>>)))
    THEN OrElse(GetProperty(r.val, <<"s", "o", "l", "u", "t", "i", "o", "n", "s">>), Arr(<<>>)).v
    ELSE <<>>

SolutionsListOf(jsonContent) == SolutionsList(JSONParse(jsonContent))

\* --- multi-block segment selection (lines 280-319) --------------------------
TextBlock(text) == [type |-> "text", text |-> text]
ToolBlock == [type |-> "server_tool_use", text |-> <<>>]

\* completion.content.filter(block => block.type === 'text')
RECURSIVE TextBlocksOf(_)
TextBlocksOf(content) ==
  IF content = <<>> THEN <<>>
  ELSE IF content[1].type = "text" THEN <<content[1]>> \o TextBlocksOf(Tail(content))
  ELSE TextBlocksOf(Tail(content))

LooksLikeJSON(blockText) ==
  LET hasJSONKey == Includes(blockText, Quoted(<<"s", "o", "l", "u", "t", "i", "o", "n", "s">>)) /\ Includes(blockText, <<COLON>>)
      hasJSONObject == Includes(blockText, <<LB>>) /\ Includes(blockText, <<RB>>)
      hasJSONArray == Includes(blockText, <<LK>>) /\ Includes(blockText, <<RK>>)
  IN  (hasJSONKey /\ hasJSONObject) \/ (hasJSONKey /\ hasJSONArray)

SelectedBlockAlwaysLast(textBlocks) == Len(textBlocks)

SelectedBlockLastQualifying(textBlocks) ==
  IF \E k \in 1..Len(textBlocks) : LooksLikeJSON(textBlocks[k].text)
    THEN CHOOSE k \in 1..Len(textBlocks) :
           /\ LooksLikeJSON(textBlocks[k].text)
           /\ \A j \in (k + 1)..Len(textBlocks) : ~LooksLikeJSON(textBlocks[j].text)
    ELSE Len(textBlocks)

\* 1-based index of the selected text block (textBlocks is not empty); the
\* loop assigns responseWithJSON = blockText, and an empty blockText leaves
\* it falsy, but a block that looks like JSON is never empty
SelectedBlock(textBlocks) ==
  IF \E k \in 1..Len(textBlocks) : LooksLikeJSON(textBlocks[k].text)
    THEN CHOOSE k \in 1..Len(textBlocks) :
           /\ LooksLikeJSON(textBlocks[k].text)
           /\ \A j \in 1..(k - 1) : ~LooksLikeJSON(textBlocks[j].text)
    ELSE Len(textBlocks)

\* ------------------------------------------------------------------------
\* Inputs of the model
\* ------------------------------------------------------------------------
\* bounds of the model
MaxItems == 2
MaxScanLen == 4
ClockSkew == 1
Epoch == 1000
MaxBlocks == 3

\* parameters of the calls
TrendId == <<"t", "1">>
CompanyId == <<"c", "1">>
NeedIdParam == <<"n", "1">>

\* sequences over set S of length lo..hi
SeqsUpTo(S, lo, hi) == UNION {[1..n -> S] : n \in lo..hi}

\* JSON text of a list of item texts, and of an object wrapping it under key
ListText(itemTexts) == <<LK>> \o JoinTexts(itemTexts) \o <<RK>>
WrapText(key, itemTexts) == <<LB>> \o Quoted(key) \o <<COLON>> \o ListText(itemTexts) \o <<RB>>
ItemWith(key, valueText) == <<LB>> \o Quoted(key) \o <<COLON>> \o valueText \o <<RB>>

ScoreKeys == { <<"i", "m", "p", "a", "c", "t", "S", "c", "o", "r", "e">>, <<"e", "f", "f", "o", "r", "t", "S", "c", "o", "r", "e">>, <<"u", "r", "g", "e", "n", "c", "y", "S", "c", "o", "r", "e">> }

NumericScoreTexts ==
  { <<"-", "5">>, <<"0">>, <<"1">>, <<"7">>, <<"1", "0">>, <<"5", "0">>, <<"9", "9">>,
    <<"7", ".", "5">>, <<"0", ".", "5">>, <<"1", "e", "1">>, <<"-", "2", ".", "5", "E", "0">>, <<"1", "e", "4", "0", "0">>, <<"1", "e", "-", "4", "0", "0">>,
    <<"-", "0">>, <<"7", ".", "0", "0", "0", "0", "0", "0", "0", "0", "0", "0", "0", "0", "0", "0", "0", "0", "1">>, <<"0", ".", "9", "9", "9", "9", "9", "9", "9", "9", "9", "9", "9", "9", "9", "9", "9", "9", "9", "9", "9", "9">>,
    <<"2", ".", "4", "7", "0", "3", "2", "8", "2", "2", "9", "2", "0", "6", "2", "3", "2", "7", "2", "0", "8", "5", "e", "-", "3", "2", "4">>, <<"1", ".", "7", "9", "7", "6", "9", "3", "1", "3", "4", "8", "6", "2", "3", "1", "5", "8", "0", "7", "9", "3", "7", "2", "8", "9", "7", "1", "4", "e", "3", "0", "8">> }

NonNumericScoreTexts ==
  { <<"n", "u", "l", "l">>, <<"\"", "h", "i", "g", "h", "\"">>, <<"\"", "7", "\"">>, <<"\"", "\"">>, <<"t", "r", "u", "e">>, <<"f", "a", "l", "s", "e">>,
    <<"[", "]">>, <<"[", "7", "]">>, <<"{", "}">>,
    <<"\"", "1", "e", "1", "\"">>, <<"\"", "0", "x", "1", "0", "\"">>, <<"\"", "I", "n", "f", "i", "n", "i", "t", "y", "\"">>, <<"\"", ".", "5", "\"">>, <<"\"", "\\", "f", "7", "\"">>,
    <<"\"", "\\", "u", "0", "0", "3", "7", "7", "\"">>, <<"[", "7", ".", "5", "]">>,
    <<"{", "\"", "t", "o", "S", "t", "r", "i", "n", "g", "\"", ":", "\"", "x", "\"", "}">>, <<"[", "{", "\"", "t", "o", "S", "t", "r", "i", "n", "g", "\"", ":", "1", "}", "]">>, <<"{", "\"", "v", "a", "l", "u", "e", "O", "f", "\"", ":", "1", "}">> }

EnumKeys == { <<"c", "a", "t", "e", "g", "o", "r", "y">>, <<"p", "r", "i", "o", "r", "i", "t", "y">>, <<"a", "p", "p", "r", "o", "a", "c", "h">> }

EnumValueTexts ==
  { <<"\"", "a", "u", "t", "o", "m", "a", "t", "i", "o", "n", "\"">>, <<"\"", "i", "n", "n", "o", "v", "a", "t", "i", "o", "n", "\"">>, <<"\"", "h", "i", "g", "h", "\"">>, <<"\"", "c", "r", "i", "t", "i", "c", "a", "l", "\"">>,
    <<"\"", "b", "u", "i", "l", "d", "\"">>, <<"\"", "r", "e", "n", "t", "\"">>, <<"\"", "A", "u", "t", "o", "m", "a", "t", "i", "o", "n", "\"">>, <<"7">>, <<"n", "u", "l", "l">>, <<"[", "\"", "l", "o", "w", "\"", "]">> }

NeedListKeys == { <<"s", "t", "a", "k", "e", "h", "o", "l", "d", "e", "r", "s">>, <<"r", "i", "s", "k", "s">>, <<"s", "u", "c", "c", "e", "s", "s", "M", "e", "t", "r", "i", "c", "s">> }
SolutionListKeys == { <<"r", "i", "s", "k", "s">>, <<"b", "e", "n", "e", "f", "i", "t", "s">>, <<"r", "e", "q", "u", "i", "r", "e", "m", "e", "n", "t", "s">>, <<"a", "l", "t", "e", "r", "n", "a", "t", "i", "v", "e", "s">> }

ListValueTexts ==
  { <<"[", "\"", "C", "T", "O", "\"", "]">>, <<"[", "]">>, <<"[", "7", ",", "n", "u", "l", "l", "]">>, <<"\"", "n", "o", "n", "e", "\"">>, <<"7">>, <<"n", "u", "l", "l">>, <<"{", "}">> }

\* item texts every list of the model may hold
CoreItemTexts ==
  { <<"{", "\"", "t", "i", "t", "l", "e", "\"", ":", "\"", "A", "\"", "}">>,
    <<"{", "\"", "t", "i", "t", "l", "e", "\"", ":", "\"", "B", "\"", ",", "\"", "i", "m", "p", "a", "c", "t", "S", "c", "o", "r", "e", "\"", ":", "0", "}">>,
    <<"{", "\"", "i", "d", "\"", ":", "\"", "x", "\"", ",", "\"", "a", "p", "p", "r", "o", "a", "c", "h", "\"", ":", "\"", "r", "e", "n", "t", "\"", "}">>,
    <<"{", "\"", "t", "i", "t", "l", "e", "\"", ":", "\"", "a", "}", "b", "{", "\"", "}">>,
    <<"{", "\"", "t", "i", "t", "l", "e", "\"", ":", "\"", "q", "\\", "\"", "}", "\"", "}">>,
    <<"{", "}">> }

\* item texts used in one-item lists
SingleItemTexts ==
  CoreItemTexts
  \cup {ItemWith(k, v) : k \in ScoreKeys, v \in NumericScoreTexts \cup NonNumericScoreTexts}
  \cup {ItemWith(k, v) : k \in EnumKeys, v \in EnumValueTexts}
  \cup {ItemWith(k, v) : k \in NeedListKeys \cup SolutionListKeys, v \in ListValueTexts}
  \cup { <<"{", "\"", "n", "e", "e", "d", "I", "d", "\"", ":", "\"", "z", "\"", ",", "\"", "i", "d", "\"", ":", "7", "}">>,
         <<"{", "\"", "i", "m", "p", "a", "c", "t", "S", "c", "o", "r", "e", "\"", ":", "9", "9", ",", "\"", "e", "f", "f", "o", "r", "t", "S", "c", "o", "r", "e", "\"", ":", "-", "5", ",", "\"", "u", "r", "g", "e", "n", "c", "y", "S", "c", "o", "r", "e", "\"", ":", "5", "0", "}">>,
         <<"{", "\"", "t", "i", "t", "l", "e", "\"", ":", "\"", "A", "\"", ",", "\"", "t", "i", "t", "l", "e", "\"", ":", "\"", "B", "\"", "}">>,
         <<"{", "\"", "t", "i", "t", "l", "e", "\"", ":", "\"", "\\", "u", "0", "0", "4", "1", "\\", "u", "0", "0", "e", "9", "\"", "}">>,
         <<"{", "\"", "t", "i", "t", "l", "e", "\"", ":", "\"", "a", "U+0008", "b", "\"", "}">>,
         <<"{", "\"", "b", "\"", ":", "1", ",", "\"", "1", "\"", ":", "2", ",", "\"", "0", "\"", ":", "3", "}">>,
         <<"7">>, <<"n", "u", "l", "l">>, <<"\"", "a", "b", "\"">>, <<"[", "1", "]">> }

\* lists mixing item objects with values that are not objects
MixedItemLists ==
  { << <<"{", "\"", "t", "i", "t", "l", "e", "\"", ":", "\"", "A", "\"", "}">>, <<"n", "u", "l", "l">> >>, << <<"7">>, <<"{", "\"", "t", "i", "t", "l", "e", "\"", ":", "\"", "A", "\"", "}">> >>,
    << <<"\"", "a", "b", "\"">>, <<"[", "1", "]">> >>, << <<"n", "u", "l", "l">>, <<"n", "u", "l", "l">> >> }

ItemLists ==
  SeqsUpTo(CoreItemTexts, 0, MaxItems) \cup {<<t>> : t \in SingleItemTexts}
  \cup MixedItemLists

Prefixes == { <<>>, <<"H", "e", "r", "e", " ", "y", "o", "u", " ", "g", "o", ":", " ">>, <<"F", "o", "r", " ", "{", "x", "}", " ", "u", "s", "e", " ">>, <<"{", " ">>, <<"s", "a", "y", " ", "\"", "h", "i", "\"", " ">> }
Suffixes == { <<>>, <<" ", "D", "o", "n", "e", ".">>, <<" ", "}", " ", "{">>, <<"\n">> }

EmbeddedObjects(key) ==
  { WrapText(key, <<t>>) : t \in CoreItemTexts }
  \cup { <<LB>> \o <<"\"", "a", "\"", ":", "{", "\"", "b", "\"", ":", "1", "}", ",">> \o Quoted(key) \o <<":", "[", "{", "}", "]", "}">> }

EmbeddedTexts(key) ==
  { p \o o \o s : p \in Prefixes, o \in EmbeddedObjects(key), s \in Suffixes }

ScanAlphabet == { LB, RB, QT, BS, "a" }
ScanTails == SeqsUpTo(ScanAlphabet, 0, MaxScanLen)

FencedTexts(key) ==
  { Fence \o <<"j", "s", "o", "n", "\n">> \o WrapText(key, << <<"{", "\"", "t", "i", "t", "l", "e", "\"", ":", "\"", "X", "\"", "}">> >>) \o <<"\n">> \o Fence,
    Fence \o <<"\n">> \o WrapText(key, << <<"{", "\"", "t", "i", "t", "l", "e", "\"", ":", "\"", "X", "\"", "}">> >>) \o Fence,
    <<" ", " ">> \o Fence \o <<"j", "s", "o", "n">> \o WrapText(key, << <<"{", "\"", "t", "i", "t", "l", "e", "\"", ":", "\"", "X", "\"", "}">> >>) \o <<"\n">> \o Fence \o <<"\n">>,
    <<CharOfCode(160)>> \o Fence \o <<"j", "s", "o", "n", "\n">> \o WrapText(key, << <<"{", "\"", "t", "i", "t", "l", "e", "\"", ":", "\"", "X", "\"", "}">> >>)
      \o <<"\n">> \o Fence \o <<CharOfCode(65279)>>,
    Fence }

MalformedTexts(key) ==
  { <<>>, <<"I", " ", "c", "o", "u", "l", "d", " ", "n", "o", "t", " ", "p", "r", "o", "d", "u", "c", "e", " ", "a", " ", "l", "i", "s", "t", ".">>, <<"n", "u", "l", "l">>, <<"7">>, <<"[", "]">>, <<"[", "{", "}", "]">>,
    <<"[", "7", "]">>, <<"[", "n", "u", "l", "l", "]">>, <<" ", "[", "\"", "a", "b", "\"", ",", " ", "7", "]", " ">>, <<"\"", "a", "b", "\"">>, <<"t", "r", "u", "e">>, <<"{", "}">>, <<"[", "[", "1", "]", "]">>,
    <<"[", "7", ",", " ", "{", "}", "]">>, <<"[", " ", "{", "\"", "t", "i", "t", "l", "e", "\"", ":", "\"", "A", "\"", "}", " ", ",", " ", "{", "\"", "t", "i", "t", "l", "e", "\"", ":", "\"", "B", "\"", "}", " ", "]">>,
    <<LB>> \o Quoted(key) \o <<":", "{", "\"", "t", "i", "t", "l", "e", "\"", ":", "\"", "A", "\"", "}", "}">>,
    <<LB>> \o Quoted(key) \o <<":", "[", "{", "\"", "t", "i", "t", "l", "e", "\"", ":", "\"", "A", "\"", "}">>,
    <<LB>> \o Quoted(key) \o <<":", "[", "{", "\"", "t", "i", "t", "l", "e", "\"", ":", "\"", "A", "}", "]", "}">>,
    <<LB>> \o Quoted(key) \o <<":", "[", "{", "\"", "t", "i", "t", "l", "e", "\"", ":", "\"", "A", "\"", "}", ",", "]", "}">>,
    <<LB>> \o Quoted(key) \o <<" ", ":", " ", "[", " ", "{", " ", "}", " ", "]", " ", "}", " ", " ">>,
    <<"{", "\"", "N", "e", "e", "d", "s", "\"", ":", "[", "{", "}", "]", ",", "\"", "S", "O", "L", "U", "T", "I", "O", "N", "S", "\"", ":", "[", "{", "}", "]", "}">>,
    <<"{", "\"", "i", "t", "e", "m", "s", "\"", ":", "[", "{", "}", "]", "}">>, <<"{", "\"", "a", "\"", ":", "1", "}", " ", "{", "\"", "b", "\"", ":", "\\">>,
    <<LB, "\f">> \o Quoted(key) \o <<":", "[", "{", "}", "]", "}">>,
    <<"{", "\f", "\"", "a", "\"", ":", "1", "}">>,
    <<"n", "e", "t", "w", "o", "r", "k", " ", "d", "o", "w", "n">>, <<"r", "a", "t", "e", " ", "l", "i", "m", "i", "t", " ", "r", "e", "a", "c", "h", "e", "d">>, <<"N", "o", " ", "A", "P", "I", " ", "k", "e", "y">>,
    <<LB>> \o Quoted(key) \o <<":", " ", "n", "e", "t", "w", "o", "r", "k", "}">>,
    <<"{", "\"", "a", "\"", ":", "\"", "A", "P", "I", " ", "k", "e", "y", "\"", ",", "\"", "b", "b", "\"", ":", "0", ",", "\"", "c", "\"", ":", " ", "r", "a", "t", "e", " ", "l", "i", "m", "i", "t", "}">>,
    <<LB>> \o Quoted(key) \o <<":", "[", "{", "\"", "t", "\"", ":", "\"", "A", "P", "I", " ", "k", "e", "y", "\"", "}", "]", ",", "\"", "x", "\"", ":", " ", "n", "e", "t", "w", "o", "r", "k", " ", "}">>,
    <<"{", "\"", "a", "\"", ":", "\"", "A", "P", "I", " ", "k", "e", "y", "\"", ",", "\"", "b", "\"", ":", "\"", "0", "1", "2", "3", "4", "5", "6", "7", "8", "9", "\"", ",", " ", "x", "}">>,
    <<LB>> \o Quoted(key) \o <<":", "[", "{", "\"", "t", "i", "t", "l", "e", "\"", ":", "\"", "A", "\"", "}", "]", ",", "\"", "n", "\"", ":", "0", "1", "}">>,
    <<LB>> \o Quoted(key) \o <<":", "[", "{", "\"", "t", "i", "t", "l", "e", "\"", ":", "\"", "A", "\\", "x", "\"", "}", "]", "}">>,
    <<LB>> \o Quoted(key) \o <<":", "[", "]", ",", "\"", "n", "e", "t", "w", "o", "r", "k", "\"", " ", "t", "r", "u", "e", "}">>,
    <<LB>> \o Quoted(key) \o <<":", "[", "{", "\"", "t", "i", "t", "l", "e", "\"", ":", "\"", "t", "\"", "}", "]", ",", "\"", "m", "o", "r", "e", "\"">>,
    <<"{", "\"", "\"", ":", "0", ",", "\"", "\\", "u", "0", "0", "6", "e", "e", "e", "d", "s", "\"", ":", "[", "{", "}", "]", "}">>, <<"{", "\"", "\"", ":", "0", ",", "\"", "\\", "u", "0", "0", "7", "3", "o", "l", "u", "t", "i", "o", "n", "s", "\"", ":", "[", "7", "]", "}">> }

\* the legacy bare-array form: a top-level list of item objects
LegacyArrayTexts == { ListText(l) : l \in SeqsUpTo(CoreItemTexts, 1, MaxItems) }

LegacyExample == <<"[", "{", "\"", "t", "i", "t", "l", "e", "\"", ":", "\"", "A", "\"", "}", ",", "{", "\"", "t", "i", "t", "l", "e", "\"", ":", "\"", "B", "\"", "}", "]">>

\* texts the completion source may return for expected key key
CompletionTexts(key) ==
  { WrapText(key, l) : l \in ItemLists }
  \cup LegacyArrayTexts
  \cup { LegacyExample }
  \cup EmbeddedTexts(key)
  \cup { <<LB>> \o Quoted(key) \o <<COLON>> \o w : w \in ScanTails }
  \cup FencedTexts(key)
  \cup MalformedTexts(key)

NeedsCompletions == CompletionTexts(<<"n", "e", "e", "d", "s">>)

\* texts of the blocks of a completion with several text blocks
BlockTexts ==
  { <<"O", "k", ".">>,
    <<"\"", "s", "o", "l", "u", "t", "i", "o", "n", "s", "\"", ":", " ", "s", "e", "e", " ", "[", "1", "]">>,
    <<"I", " ", "w", "i", "l", "l", " ", "r", "e", "s", "e", "a", "r", "c", "h", " ", "\"", "s", "o", "l", "u", "t", "i", "o", "n", "s", "\"", " ", "n", "o", "w", ",", " ", "i", "n", " ", "d", "e", "p", "t", "h", " ", "{", "}", ".">>,
    WrapText(<<"s", "o", "l", "u", "t", "i", "o", "n", "s">>, << <<"{", "\"", "t", "i", "t", "l", "e", "\"", ":", "\"", "A", "\"", "}">> >>),
    <<"S", "o", ":", " ", "{", "\"", "s", "o", "l", "u", "t", "i", "o", "n", "s", "\"", ":", "[", "{", "\"", "t", "i", "t", "l", "e", "\"", ":", "\"", "B", "\"", "}", "]", "}">>,
    <<"{", "\"", "\\", "u", "0", "0", "7", "3", "o", "l", "u", "t", "i", "o", "n", "s", "\"", ":", "[", "{", "\"", "t", "i", "t", "l", "e", "\"", ":", "\"", "A", "\"", "}", "]", "}">> }

BlockLists == SeqsUpTo(BlockTexts, 2, MaxBlocks)

\* content block lists the solutions completion may hold
SolutionsContents ==
  { <<TextBlock(t)>> : t \in CompletionTexts(<<"s", "o", "l", "u", "t", "i", "o", "n", "s">>) }
  \cup { [k \in 1..Len(l) |-> TextBlock(l[k])] : l \in BlockLists }
  \cup { <<>>, <<ToolBlock>>,
         <<TextBlock(<<"I", " ", "w", "i", "l", "l", " ", "r", "e", "s", "e", "a", "r", "c", "h", " ", "\"", "s", "o", "l", "u", "t", "i", "o", "n", "s", "\"", " ", "n", "o", "w">>), ToolBlock,
           TextBlock(WrapText(<<"s", "o", "l", "u", "t", "i", "o", "n", "s">>, << <<"{", "\"", "t", "i", "t", "l", "e", "\"", ":", "\"", "A", "\"", "}">> >>)),
           TextBlock(<<"A", "n", "y", "t", "h", "i", "n", "g", " ", "e", "l", "s", "e", "?">>)>>,
         <<TextBlock(<<"\"", "s", "o", "l", "u", "t", "i", "o", "n", "s", "\"", ":", " ", "s", "e", "e", " ", "[", "1", "]">>), 
           TextBlock(WrapText(<<"s", "o", "l", "u", "t", "i", "o", "n", "s">>, << <<"{", "\"", "t", "i", "t", "l", "e", "\"", ":", "\"", "A", "\"", "}">> >>))>>,
         <<TextBlock(WrapText(<<"i", "t", "e", "m", "s">>, << <<"{", "\"", "t", "i", "t", "l", "e", "\"", ":", "\"", "A", "\"", "}">> >>)),
           TextBlock(<<"N", "o", " ", "l", "i", "s", "t", ".">>)>>,
         <<TextBlock(<<"{", "\"", "a", "\"", ":", "1", "}">>), TextBlock(<<>>)>> }

\* nondecreasing clock readings of n successive calls of Date.now()/new Date()
ClockReadings(n) ==
  { [k \in 1..n |-> Epoch + Cardinality({j \in 1..ClockSkew : f[j] < k})] :
      f \in [1..ClockSkew -> 0..n] }

\* the readings of the k-th map callback when each callback reads per times
ClockOf(readings, k, per) == [j \in 1..per |-> readings[(k - 1) * per + j]]

\* ------------------------------------------------------------------------
\* State machine of one pipeline invocation
\* ------------------------------------------------------------------------
VARIABLES
  pc,           \* "idle", "lookup", "awaiting", "scan", "parse", "done"
  pipeline,     \* "none", "needs", "solutions"
  lookups,      \* number of calls of getTrendById
  calls,        \* number of calls of the completion source
  completion,   \* what the completion source returned (text or content blocks)
  response,     \* argument of extractJSONFromResponse
  strategy,     \* strategy extractJSONFromResponse took (0: none)
  scanText,     \* text the balanced scan runs on
  scanPos,      \* loop variable i: number of characters examined
  braceCount,   \* braceCount / bracketCount
  inString,
  escapeNext,
  jsonContent,  \* result of extractJSONFromResponse
  rawItems,     \* the list the map callback runs over
  foundBlockIndex,  \* 1-based index of the selected text block (0: none)
  rejection,    \* the rejection of the completion call
  outcome       \* what the caller gets: returned items or thrown error

\* state of the useFastTrends hook
VARIABLES
  category,        \* options.category ("none": not given)
  limit,           \* options.limit
  trends,
  isLoading,
  isComplete,
  hasCache,
  error,           \* "null" or the message
  instantData,     \* data of the instant query (received: whether it arrived)
  listData,        \* data of the list query (<<>> also stands for undefined)
  listRequests,    \* inputs of the requests sent to the list endpoint
  generations,     \* the calls of generateFreshTrends not settled yet
  started,         \* number of calls of generateFreshTrends so far
  refreshing,      \* number of the generation the last refresh() awaits (0: none)
  instantEffectDue,  \* the instant-data effect runs after the next render
  listEffectDue      \* the list-data effect runs after the next render

\* state of the SolutionMatching component
VARIABLES
  searchParams,    \* "complete", "needIdOnly" or "none"
  solutions,       \* solutions of the store (batch numbers)
  isGenerating,
  mutation,        \* status, variables and data of the generateSolutions mutation
  getSolutions,    \* status and data of the getSolutionsByNeed query
  mutations,       \* number of mutate() calls so far
  failedBatches,   \* batches of the mutations that failed
  mountEffectDue,  \* the effect of lines 63-67 has not run yet
  dataEffectDue    \* the effect of lines 57-61 runs after the next render

pipelineVars == <<pc, pipeline, lookups, calls, completion, response, strategy, scanText,
                  scanPos, braceCount, inString, escapeNext, jsonContent, rawItems,
                  foundBlockIndex, rejection, outcome>>

hookVars == <<category, limit, trends, isLoading, isComplete, hasCache, error, instantData,
              listData, listRequests, generations, started, refreshing,
              instantEffectDue, listEffectDue>>

matchingVars == <<searchParams, solutions, isGenerating, mutation, getSolutions,
                  mutations, failedBatches, mountEffectDue, dataEffectDue>>

vars == <<pipelineVars, hookVars, matchingVars>>

scanVars == <<scanText, scanPos, braceCount, inString, escapeNext>>

NoOutcome == [status |-> "none", items |-> <<>>, error |-> <<>>]

NoInstantData ==
  [received |-> FALSE, trends |-> <<>>, cached |-> FALSE, shouldRefresh |-> FALSE]

\* options.limit when the caller gives none
DefaultLimit == 20

\* the state of the hook after its first render with the options category cat
\* and limit lim
HookInit(cat, lim) ==
  /\ category = cat
  /\ limit = lim
  /\ trends = <<>>
  /\ isLoading = FALSE
  /\ isComplete = FALSE
  /\ hasCache = FALSE
  /\ error = "null"
  /\ instantData = NoInstantData
  /\ listData = <<>>
  /\ listRequests = <<>>
  /\ generations = {}
  /\ started = 0
  /\ refreshing = 0
  /\ instantEffectDue = FALSE
  /\ listEffectDue = FALSE

NoResult == [success |-> FALSE, hasData |-> FALSE, data |-> {}]

NoMutation == [status |-> "idle", variables |-> "none", data |-> NoResult]

\* the state of the component after its first render with the given search
\* parameters and the given solutions in the store
MatchingInit(params, stored) ==
  /\ searchParams = params
  /\ solutions = stored
  /\ isGenerating = FALSE
  /\ mutation = NoMutation
  /\ getSolutions =
       [status |-> IF params # "none" /\ stored = {} THEN "loading" ELSE "disabled",
        data |-> NoResult]
  /\ mutations = 0
  /\ failedBatches = {}
  /\ mountEffectDue = TRUE
  /\ dataEffectDue = FALSE

PipelineInit ==
  /\ pc = "idle"
  /\ pipeline = "none"
  /\ lookups = 0
  /\ calls = 0
  /\ completion = <<>>
  /\ response = <<>>
  /\ strategy = 0
  /\ scanText = <<>>
  /\ scanPos = 0
  /\ braceCount = 0
  /\ inString = FALSE
  /\ escapeNext = FALSE
  /\ jsonContent = <<>>
  /\ rawItems = <<>>
  /\ foundBlockIndex = 0
  /\ rejection = NoRejection
  /\ outcome = NoOutcome

Init ==
  /\ PipelineInit
  /\ HookInit("none", DefaultLimit)
  /\ MatchingInit("none", {})

\* generateNeedsFromTrend up to its first await: getTrendById is called and
\* the call returns to the event loop
GenerateNeedsFromTrend ==
  /\ UNCHANGED <<hookVars, matchingVars>>
  /\ pc = "idle"
  /\ pipeline' = "needs"
  /\ lookups' = lookups + 1
  /\ pc' = "lookup"
  /\ UNCHANGED <<calls, completion, response, strategy, scanVars, jsonContent, rawItems,
                 foundBlockIndex, rejection, outcome>>

TrendNotFound(trendId) == << <<"T", "r", "e", "n", "d", " ", "n", "o", "t", " ", "f", "o", "u", "n", "d", ":", " ">>, trendId >>

LookupResolvesCallsFirst(trendFound) ==
  /\ UNCHANGED <<hookVars, matchingVars>>
  /\ pc = "lookup"
  /\ calls' = calls + 1
  /\ IF trendFound
       THEN /\ pc' = "awaiting"
            /\ outcome' = outcome
       ELSE /\ pc' = "done"
            /\ outcome' = Thrown(TrendNotFound(TrendId))
  /\ UNCHANGED <<pipeline, lookups, completion, response, strategy, scanVars, jsonContent,
                 rawItems, foundBlockIndex, rejection>>

\* getTrendById resolves: lines 107-115, up to the await of
\* generateCompletion; trendFound: whether it resolved to a trend
LookupResolves(trendFound) ==
  /\ UNCHANGED <<hookVars, matchingVars>>
  /\ pc = "lookup"
  /\ IF trendFound
       THEN /\ pc' = "awaiting"
            /\ calls' = calls + 1
            /\ outcome' = outcome
       ELSE /\ pc' = "done"
            /\ calls' = calls
            /\ outcome' = Thrown(TrendNotFound(TrendId))
  /\ UNCHANGED <<pipeline, lookups, completion, response, strategy, scanVars, jsonContent,
                 rawItems, foundBlockIndex, rejection>>

\* messages of the errors a rejected getTrendById carries
LookupRejectionMessages == { <<"d", "b", " ", "d", "o", "w", "n">> }

\* getTrendById rejects: the await of line 106 is outside the try block, so
\* the call rejects with the same error
LookupRejects ==
  /\ UNCHANGED <<hookVars, matchingVars>>
  /\ pc = "lookup"
  /\ \E msg \in LookupRejectionMessages : outcome' = Thrown(<<msg>>)
  /\ pc' = "done"
  /\ UNCHANGED <<pipeline, lookups, calls, completion, response, strategy, scanVars,
                 jsonContent, rawItems, foundBlockIndex, rejection>>

\* generateSolutions up to the await of anthropic.messages.create
GenerateSolutions ==
  /\ UNCHANGED <<hookVars, matchingVars>>
  /\ pc = "idle"
  /\ pipeline' = "solutions"
  /\ pc' = "awaiting"
  /\ calls' = calls + 1
  /\ UNCHANGED <<lookups, completion, response, strategy, scanVars, jsonContent, rawItems,
                 foundBlockIndex, rejection, outcome>>

\* extractJSONFromResponse(resp, key) up to the first iteration of its scan
EnterExtraction(resp, key) ==
  LET loc == Locate(resp, key, pipeline)
  IN  /\ response' = resp
      /\ strategy' = loc.strategy
      /\ scanText' = loc.text
      /\ scanPos' = 0
      /\ braceCount' = ScanStart.count
      /\ inString' = ScanStart.inString
      /\ escapeNext' = ScanStart.escapeNext
      /\ IF loc.strategy = 0
           THEN pc' = "parse" /\ jsonContent' = NoMatchResult(resp)
           ELSE pc' = "scan" /\ jsonContent' = jsonContent

\* the completion source resolves: the code runs up to the scan
CompletionResolves ==
  /\ UNCHANGED <<hookVars, matchingVars>>
  /\ pc = "awaiting"
  /\ \/ /\ pipeline = "needs"
        /\ \E text \in NeedsCompletions :
             /\ completion' = text
             /\ EnterExtraction(CleanNeedsCompletion(text), <<"n", "e", "e", "d", "s">>)
             /\ foundBlockIndex' = foundBlockIndex
             /\ outcome' = outcome
     \/ /\ pipeline = "solutions"
        /\ \E content \in SolutionsContents :
             LET textBlocks == TextBlocksOf(content)
             IN  /\ completion' = content
                 /\ IF Len(textBlocks) = 0
                      THEN /\ pc' = "done"
                           /\ outcome' = SolutionsCatch(<<NoTextResponseMessage>>, TRUE)
                           /\ UNCHANGED <<response, strategy, scanVars, jsonContent,
                                          foundBlockIndex>>
                      ELSE /\ foundBlockIndex' = SelectedBlock(textBlocks)
                           /\ EnterExtraction(
                                CleanSolutionsResponse(textBlocks[SelectedBlock(textBlocks)].text),
                                <<"s", "o", "l", "u", "t", "i", "o", "n", "s">>)
                           /\ outcome' = outcome
  /\ UNCHANGED <<pipeline, lookups, calls, rawItems, rejection>>

\* the completion source rejects: the catch block of the generator runs
CompletionRejects ==
  /\ UNCHANGED <<hookVars, matchingVars>>
  /\ pc = "awaiting"
  /\ \E r \in Rejections :
       /\ rejection' = r
       /\ outcome' = IF pipeline = "needs"
                       THEN NeedsCatch(<<r.message>>, r.isError)
                       ELSE SolutionsCatch(<<r.message>>, r.isError)
  /\ pc' = "done"
  /\ UNCHANGED <<pipeline, lookups, calls, completion, response, strategy, scanVars,
                 jsonContent, rawItems, foundBlockIndex>>

ScanOpen == IF strategy = 3 THEN LK ELSE LB
ScanClose == IF strategy = 3 THEN RK ELSE RB
ScanState ==
  [count |-> braceCount, inString |-> inString, escapeNext |-> escapeNext, returned |-> FALSE]

\* one iteration of the scan loop
ScanChar ==
  /\ UNCHANGED <<hookVars, matchingVars>>
  /\ pc = "scan"
  /\ scanPos < Len(scanText)
  /\ LET ch == scanText[scanPos + 1]
         st == ScanStep(ScanState, ch, ScanOpen, ScanClose)
     IN  /\ scanPos' = scanPos + 1
         /\ braceCount' = st.count
         /\ inString' = st.inString
         /\ escapeNext' = st.escapeNext
         /\ IF st.returned
              THEN pc' = "parse" /\ jsonContent' = SubstringTo(scanText, scanPos + 1)
              ELSE pc' = "scan" /\ jsonContent' = jsonContent
  /\ UNCHANGED <<pipeline, lookups, calls, completion, response, strategy, scanText,
                 rawItems, foundBlockIndex, rejection, outcome>>

ScanEndUnlessEscapePending ==
  /\ UNCHANGED <<hookVars, matchingVars>>
  /\ pc = "scan"
  /\ scanPos = Len(scanText)
  /\ ~escapeNext
  /\ jsonContent' = IF strategy = 3 THEN NoMatchResult(response) ELSE ScanEndResult(scanText)
  /\ pc' = "parse"
  /\ UNCHANGED <<pipeline, lookups, calls, completion, response, strategy, scanVars,
                 rawItems, foundBlockIndex, rejection, outcome>>

\* the loop ran off the end of the text
ScanEnd ==
  /\ UNCHANGED <<hookVars, matchingVars>>
  /\ pc = "scan"
  /\ scanPos = Len(scanText)
  /\ jsonContent' = IF strategy = 3 THEN NoMatchResult(response) ELSE ScanEndResult(scanText)
  /\ pc' = "parse"
  /\ UNCHANGED <<pipeline, lookups, calls, completion, response, strategy, scanVars,
                 rawItems, foundBlockIndex, rejection, outcome>>

\* the outcome of the decode of the parse r of the extracted text
DecodeOutcome(r, clocks) ==
  IF pipeline = "needs"
    THEN NeedsResult(DecodeParsedNeeds(jsonContent, r, TrendId, CompanyId, clocks))
    ELSE DecodeParsedSolutions(jsonContent, r, NeedIdParam, clocks)

\* the map over the raw items list, each callback reading the clock per times
DecodeItems(r, list, per) ==
  /\ rawItems' = list
  /\ \E readings \in ClockReadings(per * Len(list)) :
       outcome' = DecodeOutcome(r, [k \in 1..Len(list) |-> ClockOf(readings, k, per)])

DecodeParsed(r) ==
  DecodeItems(r, IF pipeline = "needs" THEN NeedsListOf(r.val).list ELSE SolutionsList(r),
              IF pipeline = "needs" THEN 3 ELSE 2)

\* JSON.parse, shape check and the map over the raw items
Decode ==
  /\ UNCHANGED <<hookVars, matchingVars>>
  /\ pc = "parse"
  /\ DecodeParsed(JSONParse(jsonContent))
  /\ pc' = "done"
  /\ UNCHANGED <<pipeline, lookups, calls, completion, response, strategy, scanVars,
                 jsonContent, foundBlockIndex, rejection>>

Next ==
  \/ GenerateNeedsFromTrend
  \/ \E trendFound \in BOOLEAN : LookupResolves(trendFound)
  \/ LookupRejects
  \/ GenerateSolutions
  \/ CompletionResolves
  \/ CompletionRejects
  \/ ScanChar
  \/ ScanEnd
  \/ Decode

Spec == Init /\ [][Next]_vars

TypeOK ==
  /\ pc \in {"idle", "lookup", "awaiting", "scan", "parse", "done"}
  /\ lookups \in 0..1
  /\ calls \in 0..1
  /\ pipeline \in {"none", "needs", "solutions"}
  /\ strategy \in 0..3
  /\ scanPos \in 0..Len(scanText)
  /\ foundBlockIndex \in 0..(MaxBlocks + 1)
  /\ rejection \in Rejections \cup {NoRejection}
  /\ outcome.status \in {"none", "ok", "error"}

\* ------------------------------------------------------------------------
\* The useFastTrends hook
\* ------------------------------------------------------------------------
\* bound of the model: calls of generateFreshTrends in one behaviour
MaxGenerations == 3

\* the values of options.limit: the default and one a caller passes
LimitOptions == { DefaultLimit, 2 }

TrendA == [id |-> "a", category |-> "technology"]
TrendB == [id |-> "b", category |-> "economy"]

\* the trend lists the endpoints may return
TrendLists == { <<>>, <<TrendA>>, <<TrendB>>, <<TrendA, TrendB>> }

CategoryOptions == { "none", "technology" }

\* category ? list.filter(t => t.category === category) : list
FilterByCategory(list, cat) ==
  IF cat = "none" THEN list
  ELSE LET keep(t) == t.category = cat IN SelectSeq(list, keep)

\* the input of the list query
ListQueryInput == [limit |-> limit, refresh |-> FALSE]

\* generateFreshTrends up to its await of refetchList; the callback holds the
\* trends.length and listData of the render it was made in
generateFreshTrendsStart ==
  /\ isLoading' = TRUE
  /\ error' = "null"
  /\ listRequests' = Append(listRequests, ListQueryInput)
  /\ generations' = generations \cup
       {[number |-> started + 1, trendsLength |-> Len(trends), listData |-> listData]}
  /\ started' = started + 1

\* the instant query resolves
InstantResolves ==
  /\ ~instantData.received
  /\ started < MaxGenerations
  /\ \E list \in TrendLists, cached \in BOOLEAN, shouldRefresh \in BOOLEAN :
       instantData' = [received |-> TRUE, trends |-> list, cached |-> cached,
                       shouldRefresh |-> shouldRefresh]
  /\ instantEffectDue' = TRUE
  /\ UNCHANGED <<category, limit, trends, isLoading, isComplete, hasCache, error, listData,
                 listRequests, generations, started, refreshing, listEffectDue>>
  /\ UNCHANGED <<pipelineVars, matchingVars>>

\* the effect that handles instant data
InstantEffect ==
  /\ instantEffectDue
  /\ instantEffectDue' = FALSE
  /\ LET filteredTrends == FilterByCategory(instantData.trends, category)
     IN  IF Len(instantData.trends) > 0
           THEN /\ trends' = filteredTrends
                /\ hasCache' = instantData.cached
                /\ isComplete' = TRUE
                /\ listEffectDue' = (listEffectDue \/ Len(filteredTrends) # Len(trends))
                /\ IF instantData.shouldRefresh /\ 2 * Len(filteredTrends) < limit
                     THEN generateFreshTrendsStart
                     ELSE /\ isLoading' = FALSE
                          /\ UNCHANGED <<error, listRequests, generations, started>>
           ELSE /\ generateFreshTrendsStart
                /\ UNCHANGED <<trends, hasCache, isComplete, listEffectDue>>
  /\ UNCHANGED <<category, limit, instantData, listData, refreshing>>
  /\ UNCHANGED <<pipelineVars, matchingVars>>

\* the effect that handles list data as a fallback
ListEffect ==
  /\ listEffectDue
  /\ IF Len(listData) > 0 /\ Len(trends) = 0
       THEN /\ trends' = FilterByCategory(listData, category)
            /\ isComplete' = TRUE
            /\ isLoading' = FALSE
            /\ listEffectDue' = (Len(FilterByCategory(listData, category)) # 0)
       ELSE /\ listEffectDue' = FALSE
            /\ UNCHANGED <<trends, isComplete, isLoading>>
  /\ UNCHANGED <<category, limit, hasCache, error, instantData, listData, listRequests,
                 generations, started, refreshing, instantEffectDue>>
  /\ UNCHANGED <<pipelineVars, matchingVars>>

\* the catch block of generateFreshTrends in call g (lines 140-152)
GenerationCaught(g, message) ==
  /\ error' = message
  /\ IF g.trendsLength = 0 /\ Len(g.listData) > 0
       THEN /\ trends' = FilterByCategory(g.listData, category)
            /\ isComplete' = TRUE
       ELSE UNCHANGED <<trends, isComplete>>
  /\ hasCache' = hasCache

\* what every settling of call g does: the finally block, and the refresh()
\* that awaited g returns
GenerationSettled(g) ==
  /\ isLoading' = FALSE
  /\ generations' = generations \ {g}
  /\ refreshing' = IF refreshing = g.number THEN 0 ELSE refreshing
  /\ listEffectDue' = (listEffectDue \/ listData' # listData \/ Len(trends') # Len(trends))

\* refetchList of call g resolves with data
GenerationResolves ==
  /\ \E g \in generations, data \in TrendLists :
       /\ listData' = data
       /\ IF Len(data) > 0
            THEN /\ trends' = FilterByCategory(data, category)
                 /\ isComplete' = TRUE
                 /\ hasCache' = FALSE
                 /\ error' = error
            ELSE GenerationCaught(g, "No trends generated")
       /\ GenerationSettled(g)
  /\ UNCHANGED <<category, limit, instantData, listRequests, started, instantEffectDue>>
  /\ UNCHANGED <<pipelineVars, matchingVars>>

\* what refetchList rejects with: an Error and its message, or a value that
\* is no Error
RefetchRejections ==
  { [isError |-> TRUE, message |-> "fetch failed"], [isError |-> FALSE, message |-> ""] }

\* err instanceof Error ? err.message : 'Failed to generate trends'
CaughtMessage(err) == IF err.isError THEN err.message ELSE "Failed to generate trends"

\* refetchList of call g rejects
GenerationRejects ==
  /\ \E g \in generations, err \in RefetchRejections :
       /\ listData' = listData
       /\ GenerationCaught(g, CaughtMessage(err))
       /\ GenerationSettled(g)
  /\ UNCHANGED <<category, limit, instantData, listRequests, started, instantEffectDue>>
  /\ UNCHANGED <<pipelineVars, matchingVars>>

\* refresh() up to its await of generateFreshTrends; the effects of the last
\* render have run when an event handler is called
Refresh ==
  /\ started < MaxGenerations
  /\ ~instantEffectDue /\ ~listEffectDue
  /\ trends' = <<>>
  /\ hasCache' = FALSE
  /\ isComplete' = FALSE
  /\ generateFreshTrendsStart
  /\ refreshing' = started + 1
  /\ listEffectDue' = (listEffectDue \/ Len(trends) # 0)
  /\ UNCHANGED <<category, limit, instantData, listData, instantEffectDue>>
  /\ UNCHANGED <<pipelineVars, matchingVars>>

TrendsInit ==
  /\ PipelineInit
  /\ \E cat \in CategoryOptions, lim \in LimitOptions : HookInit(cat, lim)
  /\ MatchingInit("none", {})

TrendsNext ==
  \/ InstantResolves
  \/ InstantEffect
  \/ ListEffect
  \/ GenerationResolves
  \/ GenerationRejects
  \/ Refresh

TrendsSpec == TrendsInit /\ [][TrendsNext]_vars

TrendsTypeOK ==
  /\ category \in CategoryOptions
  /\ limit \in LimitOptions
  /\ isLoading \in BOOLEAN
  /\ isComplete \in BOOLEAN
  /\ hasCache \in BOOLEAN
  /\ started \in 0..(MaxGenerations + 1)
  /\ refreshing \in 0..(MaxGenerations + 1)
  /\ Len(listRequests) = started
  /\ \A g \in generations : g.number \in 1..started

\* ------------------------------------------------------------------------
\* The SolutionMatching component
\* ------------------------------------------------------------------------
\* bound of the model: mutate() calls in one behaviour
MaxMutations == 3

\* the search parameters: all three present, only needId, none
SearchParamsOptions == { "complete", "needIdOnly", "none" }

\* batch 0: the solutions the server or the store held before; batch k > 0:
\* the solutions of the k-th mutation
StoredBatch == 0

\* the variables handleGenerateSolutions passes to mutate()
FullInput ==
  [needId |-> "needId", needTitle |-> "needTitle", needDescription |-> "needDescription",
   companyContext |-> "enrichedContext", preferences |-> "medium"]

\* results of the mutation and of the query: { success, data? }
Results(batch) ==
  { [success |-> s, hasData |-> h, data |-> IF h THEN d ELSE {}] :
      s \in BOOLEAN, h \in BOOLEAN, d \in {{}, {batch}} }

\* which of the three returns of the component renders
View ==
  IF isGenerating \/ getSolutions.status = "loading" THEN "loading"
  ELSE IF mutation.status = "error" \/ getSolutions.status = "error" THEN "error"
  ELSE "main"

handleGenerateSolutions ==
  IF searchParams # "complete"
    THEN UNCHANGED <<isGenerating, mutation, mutations>>
    ELSE /\ isGenerating' = TRUE
         /\ mutation' = [status |-> "pending", variables |-> FullInput, data |-> NoResult]
         /\ mutations' = mutations + 1

\* the effect of lines 63-67, which runs after the first render
MountEffect ==
  /\ mountEffectDue
  /\ mountEffectDue' = FALSE
  /\ IF searchParams = "complete" /\ solutions = {}
       THEN handleGenerateSolutions
       ELSE UNCHANGED <<isGenerating, mutation, mutations>>
  /\ UNCHANGED <<searchParams, solutions, getSolutions, failedBatches, dataEffectDue>>
  /\ UNCHANGED <<pipelineVars, hookVars>>

\* onRetry of the error display
Retry ==
  /\ View = "error"
  /\ mutations < MaxMutations
  /\ handleGenerateSolutions
  /\ UNCHANGED <<searchParams, solutions, getSolutions, failedBatches, mountEffectDue,
                 dataEffectDue>>
  /\ UNCHANGED <<pipelineVars, hookVars>>

\* onSuccess of the mutation: a result without success stores nothing
MutationSucceeds ==
  /\ mutation.status = "pending"
  /\ \E result \in Results(mutations) :
       /\ solutions' = IF result.success /\ result.hasData THEN result.data ELSE solutions
       /\ mutation' = [mutation EXCEPT !.status = "success", !.data = result]
       /\ failedBatches' = IF result.success THEN failedBatches
                           ELSE failedBatches \cup {mutations}
  /\ isGenerating' = FALSE
  /\ UNCHANGED <<searchParams, getSolutions, mutations, mountEffectDue, dataEffectDue>>
  /\ UNCHANGED <<pipelineVars, hookVars>>

\* onError of the mutation
MutationFails ==
  /\ mutation.status = "pending"
  /\ mutation' = [mutation EXCEPT !.status = "error"]
  /\ failedBatches' = failedBatches \cup {mutations}
  /\ solutions' = solutions
  /\ isGenerating' = FALSE
  /\ UNCHANGED <<searchParams, getSolutions, mutations, mountEffectDue, dataEffectDue>>
  /\ UNCHANGED <<pipelineVars, hookVars>>

\* the getSolutionsByNeed query resolves
QueryResolves ==
  /\ getSolutions.status = "loading"
  /\ \E result \in Results(StoredBatch) :
       getSolutions' = [status |-> "success", data |-> result]
  /\ dataEffectDue' = TRUE
  /\ UNCHANGED <<searchParams, solutions, isGenerating, mutation, mutations,
                 failedBatches, mountEffectDue>>
  /\ UNCHANGED <<pipelineVars, hookVars>>

\* the getSolutionsByNeed query rejects
QueryRejects ==
  /\ getSolutions.status = "loading"
  /\ getSolutions' = [status |-> "error", data |-> NoResult]
  /\ UNCHANGED <<searchParams, solutions, isGenerating, mutation, mutations,
                 failedBatches, mountEffectDue, dataEffectDue>>
  /\ UNCHANGED <<pipelineVars, hookVars>>

\* the effect of lines 57-61
DataEffect ==
  /\ dataEffectDue
  /\ dataEffectDue' = FALSE
  /\ solutions' = IF getSolutions.data.success /\ getSolutions.data.hasData
                    THEN getSolutions.data.data
                    ELSE solutions
  /\ UNCHANGED <<searchParams, isGenerating, mutation, getSolutions, mutations,
                 failedBatches, mountEffectDue>>
  /\ UNCHANGED <<pipelineVars, hookVars>>

MatchingStart ==
  /\ PipelineInit
  /\ HookInit("none", DefaultLimit)
  /\ \E params \in SearchParamsOptions, stored \in {{}, {StoredBatch}} :
       MatchingInit(params, stored)

MatchingNext ==
  \/ MountEffect
  \/ Retry
  \/ MutationSucceeds
  \/ MutationFails
  \/ QueryResolves
  \/ QueryRejects
  \/ DataEffect

MatchingSpec == MatchingStart /\ [][MatchingNext]_vars

MatchingTypeOK ==
  /\ searchParams \in SearchParamsOptions
  /\ isGenerating \in BOOLEAN
  /\ mutation.status \in {"idle", "pending", "error", "success"}
  /\ mutation.data.success \in BOOLEAN
  /\ getSolutions.status \in {"disabled", "loading", "error", "success"}
  /\ mutations \in 0..(MaxMutations + 1)
  /\ View \in {"loading", "error", "main"}

\* ------------------------------------------------------------------------
\* Properties
\* ------------------------------------------------------------------------
ExpectedKey == IF pipeline = "needs" THEN <<"n", "e", "e", "d", "s">> ELSE <<"s", "o", "l", "u", "t", "i", "o", "n", "s">>

ItemField(k, key) == GetProperty(outcome.items[k], key)
RawField(k, key) == GetProperty(rawItems[k], key)

Succeeded == pc = "done" /\ outcome.status = "ok"
Failed == pc = "done" /\ outcome.status = "error" /\ outcome.items = <<>>

\* extractBalancedJSON was called on scanText and has returned
BalancedScanDone == pc \in {"parse", "done"} /\ strategy \in {1, 2}

\* --- the scan rules as section 4.1 of the specification states them ---------
\* number of consecutive backslashes that end right before position k
RECURSIVE BackslashRun(_, _)
BackslashRun(text, k) ==
  IF k > 1 /\ text[k - 1] = BS THEN 1 + BackslashRun(text, k - 1) ELSE 0

\* positions skipped because of a pending escape
EscapedPositions(text) == {k \in 1..Len(text) : BackslashRun(text, k) % 2 = 1}

\* positions of character c that lie outside string literals and are not
\* skipped; quotes are the positions of the quotes that toggle the
\* inside-string state
CountedPositions(text, c) ==
  LET escaped == EscapedPositions(text)
      quotes == {k \in 1..Len(text) : text[k] = QT} \ escaped
  IN  {k \in {j \in 1..Len(text) : text[j] = c} \ escaped :
         Cardinality({q \in quotes : q < k}) % 2 = 0}

\* indices at which the nesting counter is zero after the character is counted
ZeroNestingIndices(text) ==
  LET opens == CountedPositions(text, LB)
      closes == CountedPositions(text, RB)
  IN  {e \in 1..Len(text) :
         Cardinality({k \in opens : k <= e}) = Cardinality({k \in closes : k <= e})}

\* the least element of a non-empty set of indices
FirstOf(indices) == CHOOSE e \in indices : \A f \in indices : e <= f

\* C1: for a valid JSON object holding the expected key, embedded in any
\* prefix and suffix text, extractJSONFromResponse returns exactly the text of
\* that object.
C1_RoundTripOfEmbeddedObject ==
  pc \in {"parse", "done"} =>
    \A p \in Prefixes, o \in EmbeddedObjects(ExpectedKey), s \in Suffixes :
      response = p \o o \o s => jsonContent = o

\* C2: for an input that begins with '{', extractBalancedJSON returns the
\* prefix that ends at the first index where the nesting counter, which
\* counts braces outside string literals and not skipped by an escape,
\* returns to zero.
C2_ReturnsPrefixAtFirstZeroNesting ==
  (BalancedScanDone /\ scanText[1] = LB) =>
    LET zeros == ZeroNestingIndices(scanText)
    IN  zeros # {} => jsonContent = SubSeq(scanText, 1, FirstOf(zeros))

\* a scan has returned a proper prefix whose string values hold a brace and
\* an escaped quote
C2_Witness ==
  /\ BalancedScanDone
  /\ scanText[1] = LB
  /\ ZeroNestingIndices(scanText) # {}
  /\ Len(jsonContent) < Len(scanText)
  /\ \E k \in 1..Len(jsonContent) :
       /\ scanText[k] = RB
       /\ k \notin CountedPositions(scanText, RB)
       /\ \E q \in EscapedPositions(scanText) : q < k /\ scanText[q] = QT

\* C3: when the scan reaches the end of the input before the nesting counter
\* returns to zero, extractBalancedJSON returns the whole input, and the
\* pipeline run ends in a failure, never in returned items.
C3_UnbalancedInputIsReturnedWholeAndFails ==
  (BalancedScanDone /\ ZeroNestingIndices(scanText) = {}) =>
    /\ jsonContent = scanText
    /\ pc = "done" => Failed

\* a run whose scan ran off the end of a text of several characters has failed
C3_Witness ==
  /\ BalancedScanDone
  /\ ZeroNestingIndices(scanText) = {}
  /\ Len(scanText) > 10
  /\ scanPos = Len(scanText)
  /\ jsonContent = scanText
  /\ Failed

\* C4: a backslash sets a one-shot escape flag; the character after it is
\* skipped from all structural interpretation, so an escaped quote inside a
\* string does not toggle the inside-string state and the braces after it
\* are still not counted.
C4_EscapeIsOneShot ==
  [][(pc = "scan" /\ scanPos < Len(scanText)) =>
       LET ch == scanText[scanPos + 1]
       IN  /\ escapeNext =>
                /\ ~escapeNext'
                /\ inString' = inString
                /\ braceCount' = braceCount
                /\ pc' = "scan"
           /\ (~escapeNext /\ ch = BS) =>
                /\ escapeNext'
                /\ inString' = inString
                /\ braceCount' = braceCount
           /\ (~escapeNext /\ inString /\ ch \in {LB, RB}) =>
                /\ inString'
                /\ braceCount' = braceCount
                /\ pc' = "scan"]_vars

\* the scan stands inside a string, before an escaped quote that a closing
\* brace follows
C4_Witness ==
  /\ pc = "scan"
  /\ inString
  /\ escapeNext
  /\ scanPos + 2 <= Len(scanText)
  /\ scanText[scanPos + 1] = QT
  /\ scanText[scanPos + 2] = RB
  /\ braceCount = 2

\* C5: a response that is a top-level JSON list of item objects is accepted
\* by both pipelines, which return one domain item per list element.
C5_LegacyBareArrayAccepted ==
  pc = "done" =>
    \A l \in SeqsUpTo(CoreItemTexts, 1, MaxItems) \cup
             {<< <<"{", "\"", "t", "i", "t", "l", "e", "\"", ":", "\"", "A", "\"", "}">>, <<"{", "\"", "t", "i", "t", "l", "e", "\"", ":", "\"", "B", "\"", "}">> >>} :
      response = ListText(l) => Succeeded /\ Len(outcome.items) = Len(l)

\* pairwise distinct identities
DistinctIds ==
  \A j, k \in 1..Len(outcome.items) : j # k => ItemField(j, <<"i", "d">>) # ItemField(k, <<"i", "d">>)

\* C6: for a well-formed input {"<key>": [...]} with N items (N >= 1) the
\* pipeline returns exactly N domain items in list order, with pairwise
\* distinct identities.
C6_ReturnsNItemsWithDistinctIds ==
  pc = "done" =>
    \A l \in SeqsUpTo(CoreItemTexts, 1, MaxItems) :
      response = WrapText(ExpectedKey, l) =>
        /\ Succeeded
        /\ Len(outcome.items) = Len(l)
        /\ \A k \in 1..Len(l) : rawItems[k] = JSONParse(l[k]).val
        /\ DistinctIds

ClockValues == Epoch..(Epoch + ClockSkew)

\* C7: the identity of every returned item is built only from the source
\* identifier, the creation timestamp and the index of the item; no field of
\* the raw item changes it.
C7_IdentityIsSynthesized ==
  Succeeded =>
    \A k \in 1..Len(outcome.items) :
      \E now \in ClockValues :
        ItemField(k, <<"i", "d">>) =
          IF pipeline = "needs" THEN Str(NeedId(TrendId, now, k - 1))
          ELSE Str(SolutionId(now, k - 1))

\* min(max(x, 1), 10) for a number x that is not NaN
Clamped(x) ==
  IF NumLess(x, Num(MinScore)) THEN Num(MinScore)
  ELSE IF NumLess(Num(MaxScore), x) THEN Num(MaxScore)
  ELSE x

\* C8: a numeric raw score x decodes to min(max(x, 1), 10).
C8_NumericScoreIsClamped ==
  (Succeeded /\ pipeline = "needs") =>
    \A k \in 1..Len(outcome.items) : \A key \in ScoreKeys :
      IsNumber(RawField(k, key)) => ItemField(k, key) = Clamped(RawField(k, key))

\* C9: a raw score that is not a number (absent, null, a string, a boolean,
\* a list or an object) decodes to the default 5.
C9_NonNumericScoreIsDefault ==
  (Succeeded /\ pipeline = "needs") =>
    \A k \in 1..Len(outcome.items) : \A key \in ScoreKeys :
      ~IsNumber(RawField(k, key)) => ItemField(k, key) = Num(DefaultScore)

ValidApproaches == << <<"b", "u", "i", "l", "d">>, <<"b", "u", "y">>, <<"p", "a", "r", "t", "n", "e", "r">> >>

\* C10: every enum-typed field of a returned item holds a value of its
\* closed vocabulary; an out-of-vocabulary or missing raw value is replaced
\* by the default and does not make the batch fail.
C10_EnumFieldsAreInVocabulary ==
  /\ Succeeded =>
       \A k \in 1..Len(outcome.items) :
         IF pipeline = "needs"
           THEN /\ ListIncludes(ValidCategories, ItemField(k, <<"c", "a", "t", "e", "g", "o", "r", "y">>))
                /\ ListIncludes(ValidPriorities, ItemField(k, <<"p", "r", "i", "o", "r", "i", "t", "y">>))
                /\ ~ListIncludes(ValidCategories, RawField(k, <<"c", "a", "t", "e", "g", "o", "r", "y">>))
                     => ItemField(k, <<"c", "a", "t", "e", "g", "o", "r", "y">>) = Str(<<"o", "p", "e", "r", "a", "t", "i", "o", "n", "a", "l", "_", "e", "f", "f", "i", "c", "i", "e", "n", "c", "y">>)
                /\ ~ListIncludes(ValidPriorities, RawField(k, <<"p", "r", "i", "o", "r", "i", "t", "y">>))
                     => ItemField(k, <<"p", "r", "i", "o", "r", "i", "t", "y">>) = Str(<<"m", "e", "d", "i", "u", "m">>)
           ELSE ListIncludes(ValidApproaches, ItemField(k, <<"a", "p", "p", "r", "o", "a", "c", "h">>))
  /\ pc = "done" =>
       \A key \in EnumKeys, v \in EnumValueTexts :
         response = WrapText(ExpectedKey, <<ItemWith(key, v)>>) => Succeeded

\* the run got a completion and decoded it (the completion call did not reject)
Decoded == pc = "done" /\ calls = 1 /\ rejection = NoRejection /\ pipeline # "none"

ListKeys == IF pipeline = "needs" THEN NeedListKeys ELSE SolutionListKeys

\* C11: in every returned item each list-typed field is a list, and it is a
\* single-element list when the raw value is absent or is not a list.
C11_ListFieldsAreLists ==
  Succeeded =>
    \A k \in 1..Len(outcome.items) : \A key \in ListKeys :
      /\ IsArray(ItemField(k, key))
      /\ ~IsArray(RawField(k, key)) => Len(ItemField(k, key).v) = 1

\* the list the code reads from the value JSON.parse gave
ListOf(parsed) ==
  IF pipeline = "needs" /\ IsArray(parsed) THEN parsed.v
  ELSE GetProperty(parsed, ExpectedKey).v

\* r, the result of JSON.parse, is a value that exposes a list
ExposesListIn(r) ==
  /\ r.ok
  /\ IF pipeline = "needs"
       THEN IsArray(r.val) \/ IsArray(GetProperty(r.val, <<"n", "e", "e", "d", "s">>))
       ELSE IsArray(GetProperty(r.val, <<"s", "o", "l", "u", "t", "i", "o", "n", "s">>))

ExposesEmptyListIn(r) == ExposesListIn(r) /\ Len(ListOf(r.val)) = 0

\* the value JSON.parse gave for the extracted text exposes a list
ExposesList == pc = "done" /\ ExposesListIn(JSONParse(jsonContent))

ExposedList == ListOf(JSONParse(jsonContent).val)

\* C12: once the parsed JSON exposes a list with elements, the run returns
\* one item per element, whatever the elements are.
C12_EveryElementIsMapped ==
  (Decoded /\ ExposesList /\ Len(ExposedList) > 0) =>
    Succeeded /\ Len(outcome.items) = Len(ExposedList)

HasBrace(text) == \E k \in 1..Len(text) : text[k] \in {LB, RB}
HasBracket(text) == \E k \in 1..Len(text) : text[k] \in {LK, RK}

\* no locator strategy matched the response
NoStrategyMatched ==
  pc \in {"parse", "done"} /\ calls = 1 /\ rejection = NoRejection /\ strategy = 0

\* extractJSONFromResponse ran on response
ExtractionRan ==
  /\ pc \in {"parse", "done"}
  /\ calls = 1
  /\ rejection = NoRejection
  /\ pipeline = "needs" \/ foundBlockIndex # 0

\* C13 as stated: when no strategy matches, the input is returned unmodified
\* and the run fails; in particular for every text without a brace.
C13_NoMatchReturnsInputAndFails ==
  /\ NoStrategyMatched => jsonContent = response
  /\ (NoStrategyMatched /\ pc = "done") => Failed
  /\ (ExtractionRan /\ ~HasBrace(response)) =>
       /\ strategy = 0
       /\ jsonContent = response
       /\ pc = "done" => Failed

\* C13 amended: when no strategy matches, the input is returned unmodified
\* and the run fails unless that input is itself JSON text whose value holds
\* the list the decode step reads (for needs an array or an object whose
\* "needs" member is an array, for solutions an object whose "solutions"
\* member is an array) and the list is not empty; it fails for every text
\* that holds neither a brace nor a bracket.
C13_NoMatchFailsUnlessInputHoldsTheList ==
  /\ NoStrategyMatched => jsonContent = response
  /\ (NoStrategyMatched /\ pc = "done" /\ ~Failed) =>
       (ExposesListIn(JSONParse(response)) /\ ~ExposesEmptyListIn(JSONParse(response)))
  /\ (ExtractionRan /\ ~HasBrace(response) /\ ~HasBracket(response)) =>
       /\ strategy = 0
       /\ jsonContent = response
       /\ pc = "done" => Failed

\* a run on prose without braces or brackets has failed after no strategy
\* matched
C13_Witness ==
  /\ NoStrategyMatched
  /\ pc = "done"
  /\ Len(response) > 5
  /\ ~HasBrace(response) /\ ~HasBracket(response)
  /\ jsonContent = response
  /\ Failed

\* the parsed value is neither a list nor an object whose expected key holds
\* a list
WrongShape ==
  /\ Decoded
  /\ JSONParse(jsonContent).ok
  /\ ~IsArray(JSONParse(jsonContent).val)
  /\ ~IsArray(GetProperty(JSONParse(jsonContent).val, ExpectedKey))

\* the error thrown for the decoded text, before any catch block
ThrownInside ==
  IF pipeline = "needs" THEN NeedsFailure(jsonContent)
  ELSE SolutionsFailure(jsonContent)

InvalidStructureErrors == { <<InvalidStructureMessage>>, <<InvalidFormatMessage>> }

\* C14: a parsed value of a wrong shape makes the run fail with the
\* invalid-structure error, and no items are returned.
C14_WrongShapeFailsWithInvalidStructure ==
  WrongShape => (Failed /\ ThrownInside \in InvalidStructureErrors)

\* C15: a decoded list of zero items makes the run fail, and no run returns
\* an empty list.
C15_EmptyListIsAFailure ==
  /\ Decoded => \A parsed \in {JSONParse(jsonContent)} : ExposesEmptyListIn(parsed) => Failed
  /\ Succeeded => Len(outcome.items) > 0

\* a run on the wrapper object holding the empty list has failed
C15_Witness ==
  /\ Decoded
  /\ response = WrapText(ExpectedKey, <<>>)
  /\ ExposesList
  /\ Len(ExposedList) = 0
  /\ Failed

\* the text the balanced scan with the given delimiters returns for the part
\* of response that starts at 0-based offset from0, fallback if it runs off
\* the end
ScanResultFrom(from0, open, close, fallback) ==
  LET text == SubstringFrom(response, from0)
      e == ScanReturnIndex(text, 1, ScanStart, open, close)
  IN  IF e > 0 THEN SubstringTo(text, e) ELSE fallback

\* C16: the strategies are tried in the order key match, generic object,
\* generic array (solutions only); the strategy taken is the first whose
\* pattern matches, and the returned text is the one that strategy produces.
C16_FirstMatchingStrategyWins ==
  ExtractionRan =>
    LET keyMatch == SearchKeyPattern(response, ExpectedKey)
        objectMatch == SearchAnyObjectPattern(response)
        arrayMatch == SearchArrayPattern(response)
    IN  /\ strategy = 1 <=> keyMatch # -1
        /\ strategy = 2 <=> (keyMatch = -1 /\ objectMatch # -1)
        /\ strategy = 3 <=>
             (pipeline = "solutions" /\ keyMatch = -1 /\ objectMatch = -1 /\ arrayMatch # -1)
        /\ strategy = 1 =>
             jsonContent = ScanResultFrom(keyMatch, LB, RB, SubstringFrom(response, keyMatch))
        /\ strategy = 2 =>
             jsonContent = ScanResultFrom(objectMatch, LB, RB, SubstringFrom(response, objectMatch))
        /\ strategy = 3 => jsonContent = ScanResultFrom(arrayMatch, LK, RK, response)

\* the generic-object strategy was taken on a text in which the array pattern
\* matches too, and at an earlier offset
C16_Witness ==
  /\ ExtractionRan
  /\ pc = "done"
  /\ pipeline = "solutions"
  /\ strategy = 2
  /\ SearchArrayPattern(response) # -1
  /\ SearchArrayPattern(response) < SearchAnyObjectPattern(response)
  /\ jsonContent # response

\* the text holds the quoted key "solutions", a colon and a delimiter pair
Qualifies(text) ==
  LET has(c) == \E k \in 1..Len(text) : text[k] = c
  IN  /\ \E k \in 1..(Len(text) - 10) : SubSeq(text, k, k + 10) = Quoted(<<"s", "o", "l", "u", "t", "i", "o", "n", "s">>)
      /\ has(COLON)
      /\ (has(LB) /\ has(RB)) \/ (has(LK) /\ has(RK))

\* a segment was selected from the text blocks of the completion
SegmentSelected ==
  /\ pipeline = "solutions"
  /\ pc \in {"scan", "parse", "done"}
  /\ foundBlockIndex # 0

\* C17: the selected segment is the first text segment, in production order,
\* that holds the quoted key "solutions", a colon and a delimiter pair; the
\* last segment when none does.
C17_FirstQualifyingSegmentIsSelected ==
  SegmentSelected =>
    LET textBlocks == TextBlocksOf(completion)
        qualifying == {k \in 1..Len(textBlocks) : Qualifies(textBlocks[k].text)}
    IN  /\ foundBlockIndex \in 1..Len(textBlocks)
        /\ qualifying # {} =>
             (foundBlockIndex \in qualifying /\ \A k \in qualifying : foundBlockIndex <= k)
        /\ qualifying = {} => foundBlockIndex = Len(textBlocks)
        /\ response = CleanSolutionsResponse(textBlocks[foundBlockIndex].text)

\* of three segments the second and the third qualify and the second was
\* selected
C17_Witness ==
  /\ SegmentSelected
  /\ pc = "done"
  /\ Len(TextBlocksOf(completion)) = 3
  /\ {k \in 1..3 : Qualifies(TextBlocksOf(completion)[k].text)} = {2, 3}
  /\ TextBlocksOf(completion)[2].text # TextBlocksOf(completion)[3].text
  /\ foundBlockIndex = 2

\* the text holds a balanced JSON object with the key "solutions"
ContainsKeyedObject(text) ==
  \E p \in 1..Len(text) :
    /\ text[p] = LB
    /\ LET r == JSONParse(extractBalancedJSON(SubstringFrom(text, p - 1)))
       IN  r.ok /\ r.val.t = "obj" /\ HasKey(r.val.v, <<"s", "o", "l", "u", "t", "i", "o", "n", "s">>)

\* the completion is three text segments of which only the second holds a
\* balanced JSON object with the expected key
OnlySecondOfThreeHoldsObject ==
  /\ SegmentSelected
  /\ Len(completion) = 3
  /\ \A k \in 1..3 : completion[k].type = "text"
  /\ ContainsKeyedObject(completion[2].text)
  /\ ~ContainsKeyedObject(completion[1].text)
  /\ ~ContainsKeyedObject(completion[3].text)

\* the text holds the key in its literal quoted form
HoldsQuotedKey(text) ==
  \E k \in 1..(Len(text) - 10) : SubSeq(text, k, k + 10) = Quoted(<<"s", "o", "l", "u", "t", "i", "o", "n", "s">>)

\* C18 as stated: of three segments of which only the second holds a balanced
\* JSON object with the expected key, the second is selected whatever the
\* first and the third hold.
C18_SecondOfThreeIsSelected ==
  OnlySecondOfThreeHoldsObject =>
    /\ foundBlockIndex = 2
    /\ response = CleanSolutionsResponse(completion[2].text)

\* C18 amended: the second is selected whatever the third holds and however
\* long the first is, provided the second holds the key in its literal
\* quoted form "solutions" (a key written with an escape sequence is not
\* recognised) and the first does not hold the quoted key "solutions", a
\* colon and a delimiter pair.
C18_SecondWithLiteralKeyIsSelectedUnlessFirstQualifies ==
  (/\ OnlySecondOfThreeHoldsObject
   /\ HoldsQuotedKey(completion[2].text)
   /\ ~Qualifies(completion[1].text)) =>
    /\ foundBlockIndex = 2
    /\ response = CleanSolutionsResponse(completion[2].text)

\* the second segment was selected although the first is longer and the
\* third holds the key, a colon and a delimiter pair
C18_Witness ==
  /\ OnlySecondOfThreeHoldsObject
  /\ HoldsQuotedKey(completion[2].text)
  /\ pc = "done"
  /\ ~Qualifies(completion[1].text)
  /\ Len(completion[1].text) > Len(completion[2].text)
  /\ Qualifies(completion[3].text)
  /\ foundBlockIndex = 2
  /\ Succeeded

\* the failure thrown in the run before any catch block handled it
OriginalFailure ==
  IF pipeline = "needs"
    THEN IF NeedsFailure(jsonContent) # <<>>
           THEN NeedsFailure(jsonContent)
         ELSE <<ZeroNeedsMessage>>
  ELSE IF foundBlockIndex = 0 THEN <<NoTextResponseMessage>>
  ELSE SolutionsFailure(jsonContent)

\* a structural failure: no JSON located, parse error, wrong shape, zero items
StructuralFailure ==
  /\ Decoded
  /\ Failed
  /\ OriginalFailure[Len(OriginalFailure)] \notin TypeErrorMessages

\* message parts m are the end of message parts e
KeepsMessage(e, m) ==
  Len(e) >= Len(m) /\ SubSeq(e, Len(e) - Len(m) + 1, Len(e)) = m

\* C19: every structural failure reaches the caller as one error that keeps
\* the original failure message and is wrapped as a generation-failed error.
C19_StructuralFailureKeepsMessageAndIsWrapped ==
  StructuralFailure =>
    /\ outcome.error[1] = GenerationFailed[1]
    /\ KeepsMessage(outcome.error, OriginalFailure)

TrendMissing == pc = "done" /\ outcome.error = TrendNotFound(TrendId)

\* the trend lookup rejected
LookupFailed ==
  pc = "done" /\ \E msg \in LookupRejectionMessages : outcome.error = <<msg>>

\* C20: the completion source is called at most once in an invocation, also
\* when the run fails, and not at all when the trend is not found (nor
\* before the trend lookup has settled).
C20_CompletionSourceCalledAtMostOnce ==
  /\ calls <= 1
  /\ TrendMissing => (calls = 0 /\ completion = <<>> /\ Failed)
  /\ pc = "lookup" => calls = 0
  /\ (pc \notin {"idle", "lookup"} /\ ~TrendMissing /\ ~LookupFailed) => calls = 1

\* a run failed on what the completion source returned, after one call
C20_Witness ==
  /\ Decoded
  /\ Failed
  /\ foundBlockIndex # 0 \/ pipeline = "needs"
  /\ OriginalFailure # <<>>
  /\ calls = 1

\* what a step of a running scan may do: examine the next character, or
\* leave the loop at the end of the text; the text returned is a prefix of
\* the scanned text, the scanned text or the response
ScanStepIsBounded ==
  pc = "scan" =>
    /\ scanText' = scanText
    /\ \/ scanPos' = scanPos + 1 /\ scanPos' <= Len(scanText)
       \/ scanPos = Len(scanText) /\ scanPos' = scanPos /\ pc' = "parse"
    /\ pc' \in {"scan", "parse"}
    /\ pc' = "parse" =>
         jsonContent' \in {SubstringTo(scanText, scanPos'), scanText, response}

\* a running scan can always take its next step
ScanCanStep == pc = "scan" => ENABLED (ScanChar \/ ScanEnd)

\* C21: the brace scan and the bracket scan examine each character at most
\* once and return a text, also when the text ends with a backslash: every
\* step of a running scan moves on by one character or leaves the loop, the
\* number of examined characters never exceeds the length of the text, and a
\* running scan is never stuck.
C21_ScansTerminate ==
  /\ [][ScanStepIsBounded]_vars
  /\ [](pc = "scan" => scanPos <= Len(scanText))
  /\ []ScanCanStep

\* a brace scan ran to the end of a text whose last character is a backslash
\* that left an escape pending, and returned
C21_Witness ==
  /\ BalancedScanDone
  /\ scanPos = Len(scanText)
  /\ scanText[Len(scanText)] = BS
  /\ escapeNext
  /\ jsonContent = scanText

\* C23: every request generateFreshTrends sends to the list endpoint carries
\* refresh = true.
C23_GenerationRequestsForceRefresh ==
  \A k \in 1..Len(listRequests) : listRequests[k].refresh = TRUE

\* positions of the quoted key (any letter case) in text that a colon follows
KeyOccurrences(text, key) ==
  {q \in 1..Len(text) :
     /\ MatchesAtFold(text, q, Quoted(key))
     /\ \E c \in (q + Len(key) + 2)..Len(text) : text[c] = COLON}

\* positions of the opening braces of text that an occurrence of the key follows
BracesBefore(text, occurrences) ==
  {p \in 1..Len(text) : text[p] = LB /\ \E q \in occurrences : q > p}
BracesBeforeKey(text, key) == BracesBefore(text, KeyOccurrences(text, key))

\* C24: strategy 1 is taken when some '{' of the response is followed by the
\* quoted key and then a colon; the scan starts at the leftmost such '{' and
\* returns the balanced object it opens, which is the embedded object that
\* holds the key only if the text before it holds no '{'.
C24_KeyStrategyStartsAtLeftmostBrace ==
  ExtractionRan =>
    LET braces == BracesBeforeKey(response, ExpectedKey)
    IN  /\ strategy = 1 <=> braces # {}
        /\ strategy = 1 =>
             LET first == CHOOSE p \in braces : \A r \in braces : p <= r
             IN  /\ \A k \in 1..(first - 1) : response[k] # LB
                 /\ scanText = SubstringFrom(response, first - 1)
                 /\ jsonContent = ScanResultFrom(first - 1, LB, RB, scanText)
                 /\ jsonContent \in EmbeddedObjects(ExpectedKey) =>
                      \A pre \in Prefixes, suf \in Suffixes :
                        response = pre \o jsonContent \o suf =>
                          \A k \in 1..Len(pre) : pre[k] # LB

\* strategy 1 started at a brace of the text before the object that holds the
\* key and returned the group of that brace, not the object
C24_Witness ==
  /\ ExtractionRan
  /\ pc = "done"
  /\ strategy = 1
  /\ \E pre \in Prefixes, o \in EmbeddedObjects(ExpectedKey), suf \in Suffixes :
       /\ response = pre \o o \o suf
       /\ \E k \in 1..Len(pre) : pre[k] = LB
       /\ Len(scanText) > Len(o \o suf)
       /\ jsonContent # o

\* C25: from a call of refresh() until the generation it started settles,
\* isLoading is true, trends is empty and isComplete is false.
C25_RefreshStaysLoadingAndEmpty ==
  refreshing # 0 => (isLoading /\ trends = <<>> /\ ~isComplete)

\* C26: extractBalancedJSON is called on a text that begins with '{'; during
\* the scan the nesting counter is never negative and is at least 1 once the
\* first character is examined, and the text returned is not empty and
\* begins with '{'.
C26_ScanStartsAtBraceAndCounterStaysPositive ==
  /\ (strategy \in {1, 2} /\ pc \in {"scan", "parse", "done"}) =>
       (scanText # <<>> /\ scanText[1] = LB /\ braceCount >= 0)
  /\ (strategy \in {1, 2} /\ pc = "scan" /\ scanPos >= 1) => braceCount >= 1
  /\ BalancedScanDone => (jsonContent # <<>> /\ jsonContent[1] = LB)

\* a scan that started inside the response, at a brace, went two levels deep
\* and returned a proper prefix
C26_Witness ==
  /\ BalancedScanDone
  /\ Len(scanText) < Len(response)
  /\ Len(jsonContent) < Len(scanText)
  /\ jsonContent[1] = LB
  /\ Cardinality(CountedPositions(jsonContent, LB)) >= 2
  /\ braceCount = 0

\* the last generation of SolutionMatching has failed: its mutation ended in
\* an error, or it resolved with a result that reports no success
LastGenerationFailed ==
  \/ mutation.status = "error"
  \/ mutation.status = "success" /\ ~mutation.data.success

\* the loading view has gone
NothingLoading == ~isGenerating /\ getSolutions.status # "loading"

\* C22: after a failed generation, once nothing is loading, the error view
\* with its one retry action is shown and the retry can run (the search
\* parameters are complete); every generation, a retried one too, is a
\* generateSolutions mutation with the full input; and no batch of a failed
\* generation is ever in the store.
C22_RetryRerunsAndFailureStoresNothing ==
  /\ (LastGenerationFailed /\ NothingLoading) =>
       (View = "error" /\ searchParams = "complete")
  /\ mutation.status # "idle" => mutation.variables = FullInput
  /\ solutions \cap failedBatches = {}

====
